---- MODULE Spec2Model ----
(***************************************************************************)
(* Model of the DateMaker backend: the Stripe webhook processor and the    *)
(* Apple receipt routes that mutate the user documents (src/server.js,     *)
(* src/routes/appleIAP.js), the Redis read-through cache in front of the   *)
(* geocode/places routes and the express-rate-limit admission layer.       *)
(*                                                                         *)
(* The specifications of the module:                                       *)
(*   Spec         the webhook processor                                    *)
(*   SpecApple    the receipt routes                                       *)
(*   SpecLedger   webhooks, cancellation and receipt routes together       *)
(*   SpecSecret   receipt validation with a shared secret configured       *)
(*   SpecRace     two receipt validations in flight, step by step          *)
(*   SpecWriters  a failed payment and a sync of one user, step by step    *)
(*   SpecCache    the cached search routes                                 *)
(*   SpecOutage   the cached routes while the store comes and goes         *)
(*   SpecLimiter  the rate limiters                                        *)
(*   SpecAdmitted routes behind their limiters                             *)
(*   SpecBilling  the events of one subscription                           *)
(*   SpecFlood    webhook deliveries beyond the general ceiling            *)
(*   SpecReconcile  the operations of SpecLedger at one instant            *)
(***************************************************************************)
EXTENDS Integers, Sequences, FiniteSets, TLC

VARIABLES users, appleTransactions, now, resp, inflight,
          cache, isRedisConnected, redisUp, clock, advances, refreshes, lastReq,
          hits, focus, sent, windowEnd, lstatus

ledgerVars == <<users, appleTransactions, now, resp, inflight>>
cacheVars == <<cache, isRedisConnected, redisUp, clock, advances, refreshes, lastReq>>
limiterVars == <<hits, focus, sent, windowEnd, lstatus>>
vars == <<users, appleTransactions, now, resp, inflight,
          cache, isRedisConnected, redisUp, clock, advances, refreshes, lastReq,
          hits, focus, sent, windowEnd, lstatus>>

(***************************************************************************)
(* Values.  A user document is a function from field names to values.     *)
(* String-valued fields use "absent" for a field the document does not     *)
(* hold; time-valued fields are integers (the instant a Date, Timestamp    *)
(* or ISO string denotes) with negative sentinels.                         *)
(***************************************************************************)
ABSENT == "absent"
NULL == "null"
DELETE == "FieldValue.delete"

\* a time field the document does not hold
ABSENT_T == 0 - 1
\* JS null / undefined in a time position
NULL_T == 0 - 2
\* admin.firestore.FieldValue.serverTimestamp()
SERVER_TS == 0 - 3
\* a value that is not a number (isNaN(x) is true)
NAN_T == 0 - 4
\* admin.firestore.FieldValue.delete() in a time position
DELETE_T == 0 - 5

StrFields ==
  {"subscriptionStatus", "stripeCustomerId", "stripeSubscriptionId",
   "paymentFailed", "isPremium", "subscriptionType", "subscriptionPlatform",
   "appleProductId", "previousAppleProductId"}

TimeFields ==
  {"trialEndsAt", "currentPeriodEnd", "subscriptionWillCancelAt",
   "paymentFailedAt", "updatedAt", "appleSubscriptionDate",
   "appleSubscriptionExpiry", "lastAppleReceiptValidation",
   "appleSubscriptionRestored", "appleSubscriptionExpired"}

Fields == StrFields \cup TimeFields

Absent(f) == IF f \in TimeFields THEN ABSENT_T ELSE ABSENT

Delete(f) == IF f \in TimeFields THEN DELETE_T ELSE DELETE

\* update(patch) replacing the document by the patch, as set(patch) does
ApplyPatch_overwrite(doc, patch) ==
  [f \in Fields |->
     IF f \in DOMAIN patch
       THEN (IF patch[f] = Delete(f) THEN Absent(f) ELSE patch[f])
       ELSE Absent(f)]

\* Firestore DocumentReference.update(patch): only the named fields change,
\* a FieldValue.delete() removes the field.
ApplyPatch(doc, patch) ==
  [f \in Fields |->
     IF f \in DOMAIN patch
       THEN (IF patch[f] = Delete(f) THEN Absent(f) ELSE patch[f])
       ELSE doc[f]]

\* new Date(sec * 1000): the instant in milliseconds, an invalid date for a
\* value that is not a number (a property the object lacks)
DateFromSeconds(sec) == IF sec >= 0 THEN sec * 1000 ELSE NAN_T

\* Date.prototype.toISOString throws a RangeError on an invalid date
ToISOStringThrows(date) == date < 0

\* the ISO string is represented by the instant it denotes
ToISOString(date) == date

\* JS truthiness of a time value: null, undefined and 0 are falsy, NaN-like
\* strings are truthy
Truthy(x) == x # NULL_T /\ x # 0

IsNaN(x) == x = NAN_T

(***************************************************************************)
(* The world the events come from.                                         *)
(***************************************************************************)
\* user ids with a document in the users collection, in document-id order
DocUsers == <<"u1", "u2">>

DocUserSet == {DocUsers[i] : i \in 1..Len(DocUsers)}

\* a user id that has no document
GhostUser == "u3"

\* checkout sessions: each has its own customer and subscription
\* (sessions are created with customer_email, so Stripe makes a new customer)
Sessions ==
  { [cref |-> "u1", customer |-> "c1", sub |-> "s1"],
    [cref |-> "u2", customer |-> "c2", sub |-> "s2"],
    [cref |-> GhostUser, customer |-> "c3", sub |-> "s3"],
    [cref |-> NULL, customer |-> "c4", sub |-> "s4"] }

CustomerOf(s) == (CHOOSE se \in Sessions : se.sub = s).customer

T1 == 1
T2 == 2

TrialEnds == {NULL_T, NAN_T, T1}
PeriodEnds == {NULL_T, T2}

(***************************************************************************)
(* Webhook events.  Every event is one record shape; a handler reads only  *)
(* the fields its Stripe object has.                                       *)
(*   checkout.session.completed : cref, customer, sub        (a session)   *)
(*   customer.subscription.*    : sub, customer, status, trial_end,        *)
(*                                current_period_end, cancel_at_period_end *)
(*   invoice.*                  : sub (NULL when the invoice has none)     *)
(***************************************************************************)
Event(type, cref, customer, sub, status, te, cpe, cancel) ==
  [type |-> type, cref |-> cref, customer |-> customer, sub |-> sub,
   status |-> status, trial_end |-> te, current_period_end |-> cpe,
   cancel_at_period_end |-> cancel]

CheckoutEvents ==
  { Event("checkout.session.completed", se.cref, se.customer, se.sub,
          NULL, NULL_T, NULL_T, FALSE) : se \in Sessions }

\* subscriptions whose events are delivered
EventSubs == {"s1", "s2", "s3"}

CreatedEvents ==
  { Event("customer.subscription.created", NULL, CustomerOf(s), s, st, te, cpe, FALSE) :
      s \in EventSubs, st \in {"trialing", "active"}, te \in TrialEnds, cpe \in PeriodEnds }

UpdatedStatuses == {"active", "trialing", "canceled", "incomplete_expired", "past_due"}

UpdatedEvents ==
  { Event("customer.subscription.updated", NULL, CustomerOf(s), s, st, NULL_T, cpe, c) :
      s \in EventSubs, st \in UpdatedStatuses, cpe \in PeriodEnds, c \in BOOLEAN }

DeletedEvents ==
  { Event("customer.subscription.deleted", NULL, CustomerOf(s), s, "canceled",
          NULL_T, T2, FALSE) : s \in EventSubs }

InvoiceEvents ==
  { Event(t, NULL, NULL, s, NULL, NULL_T, NULL_T, FALSE) :
      t \in {"invoice.payment_succeeded", "invoice.payment_failed"},
      s \in EventSubs \cup {NULL} }

OtherEvents ==
  { Event("customer.created", NULL, "c1", NULL, NULL, NULL_T, NULL_T, FALSE) }

Events ==
  CheckoutEvents \cup CreatedEvents \cup UpdatedEvents \cup DeletedEvents
    \cup InvoiceEvents \cup OtherEvents

(***************************************************************************)
(* What the outside answers while one event is handled: the subscription   *)
(* stripe.subscriptions.retrieve returns (its id and customer are those of *)
(* the subscription asked for), and whether a Stripe or a Firestore call   *)
(* throws.                                                                 *)
(***************************************************************************)
Faults == {"none", "stripe", "store"}

Env(status, te, cpe, fault) ==
  [status |-> status, trial_end |-> te, current_period_end |-> cpe, fault |-> fault]

NoEnv == Env(NULL, NULL_T, NULL_T, "none")

\* the answers that matter to the handler of event e
EnvsFor(e) ==
  IF e.type = "checkout.session.completed"
    THEN { Env(st, te, cpe, "none") :
             st \in {"trialing", "active", "canceled"}, te \in TrialEnds, cpe \in PeriodEnds }
           \cup { Env(NULL, NULL_T, NULL_T, f) : f \in {"stripe", "store"} }
  ELSE IF e.type = "invoice.payment_succeeded"
    THEN { Env("active", NULL_T, cpe, "none") : cpe \in PeriodEnds }
           \cup { Env(NULL, NULL_T, NULL_T, f) : f \in {"stripe", "store"} }
  ELSE IF e.type = "invoice.payment_failed"
    THEN { Env("past_due", NULL_T, T2, f) : f \in Faults }
  ELSE IF e.type = "customer.created"
    THEN { NoEnv }
  ELSE { Env(NULL, NULL_T, NULL_T, f) : f \in {"none", "store"} }

(***************************************************************************)
(* The handlers, as functions of the users collection.  An outcome is      *)
(*   users   the collection afterwards                                     *)
(*   thrown  whether the handler threw                                     *)
(*   io      the calls it made: retrieves (calls to Stripe or Apple),      *)
(*           reads and writes (of user documents), and what the response   *)
(*           body says                                                     *)
(***************************************************************************)
IOB(handler, retrieves, reads, writes, body) ==
  [handler |-> handler, retrieves |-> retrieves, reads |-> reads, writes |-> writes,
   body |-> body]

IO(handler, retrieves, reads, writes) == IOB(handler, retrieves, reads, writes, "")

Outcome(us, thrown, ioRec) == [users |-> us, thrown |-> thrown, io |-> ioRec]

\* the reverse lookup comparing the customer with stripeSubscriptionId
FindByCustomer_bySubscription(us, customer) ==
  LET matches == { i \in 1..Len(DocUsers) : us[DocUsers[i]].stripeSubscriptionId = customer }
  IN IF matches = {} THEN 0 ELSE CHOOSE i \in matches : \A j \in matches : i <= j

\* db.collection('users').where('stripeCustomerId', '==', customer).limit(1):
\* the first matching document in document-id order, 0 when there is none
FindByCustomer(us, customer) ==
  LET matches == { i \in 1..Len(DocUsers) : us[DocUsers[i]].stripeCustomerId = customer }
  IN IF matches = {} THEN 0 ELSE CHOOSE i \in matches : \A j \in matches : i <= j

\* db.collection('users').doc(userId).update(patch), which fails on a missing
\* document or an unavailable store
UpdateThrows(userId, fault) == fault = "store" \/ userId \notin DocUserSet

UpdateDoc(us, userId, patch) == [us EXCEPT ![userId] = ApplyPatch(us[userId], patch)]

\* handleCheckoutCompleted with the status taken from the stored document: a
\* user already in trial is promoted by the next checkout event
handleCheckoutCompleted_promoting(us, e, env) ==
  LET h == "handleCheckoutCompleted"
      userId == e.cref
      status == IF userId \in DocUserSet /\ us[userId].subscriptionStatus = "trial"
                  THEN "premium"
                  ELSE IF env.status = "trialing" THEN "trial" ELSE "premium"
      base == [stripeCustomerId |-> e.customer,
               stripeSubscriptionId |-> e.sub,
               subscriptionStatus |-> status,
               updatedAt |-> SERVER_TS]
      withTrial ==
        IF Truthy(env.trial_end) /\ ~IsNaN(env.trial_end)
          THEN base @@ [trialEndsAt |-> ToISOString(DateFromSeconds(env.trial_end))]
          ELSE base
      updateData ==
        IF Truthy(env.current_period_end) /\ ~IsNaN(env.current_period_end)
          THEN withTrial @@
                 [currentPeriodEnd |-> ToISOString(DateFromSeconds(env.current_period_end))]
          ELSE withTrial
  IN IF userId = NULL THEN Outcome(us, FALSE, IO(h, 0, 0, 0))
     ELSE IF env.fault = "stripe" THEN Outcome(us, TRUE, IO(h, 1, 0, 0))
     ELSE IF UpdateThrows(userId, env.fault) THEN Outcome(us, TRUE, IO(h, 1, 0, 0))
     ELSE Outcome(UpdateDoc(us, userId, updateData), FALSE, IO(h, 1, 0, 1))

\* handleCheckoutCompleted writing null for a date the subscription lacks
handleCheckoutCompleted_nulls(us, e, env) ==
  LET h == "handleCheckoutCompleted"
      userId == e.cref
      status == IF env.status = "trialing" THEN "trial" ELSE "premium"
      updateData ==
        [stripeCustomerId |-> e.customer,
         stripeSubscriptionId |-> e.sub,
         subscriptionStatus |-> status,
         updatedAt |-> SERVER_TS,
         trialEndsAt |->
           IF Truthy(env.trial_end) /\ ~IsNaN(env.trial_end)
             THEN ToISOString(DateFromSeconds(env.trial_end)) ELSE NULL_T,
         currentPeriodEnd |->
           IF Truthy(env.current_period_end) /\ ~IsNaN(env.current_period_end)
             THEN ToISOString(DateFromSeconds(env.current_period_end)) ELSE NULL_T]
  IN IF userId = NULL THEN Outcome(us, FALSE, IO(h, 0, 0, 0))
     ELSE IF env.fault = "stripe" THEN Outcome(us, TRUE, IO(h, 1, 0, 0))
     ELSE IF UpdateThrows(userId, env.fault) THEN Outcome(us, TRUE, IO(h, 1, 0, 0))
     ELSE Outcome(UpdateDoc(us, userId, updateData), FALSE, IO(h, 1, 0, 1))

\* handleCheckoutCompleted writing the platform as well
handleCheckoutCompleted_platform(us, e, env) ==
  LET h == "handleCheckoutCompleted"
      userId == e.cref
      status == IF env.status = "trialing" THEN "trial" ELSE "premium"
      base == [stripeCustomerId |-> e.customer,
               stripeSubscriptionId |-> e.sub,
               subscriptionStatus |-> status,
               subscriptionPlatform |-> "web",
               updatedAt |-> SERVER_TS]
      withTrial ==
        IF Truthy(env.trial_end) /\ ~IsNaN(env.trial_end)
          THEN base @@ [trialEndsAt |-> ToISOString(DateFromSeconds(env.trial_end))]
          ELSE base
      updateData ==
        IF Truthy(env.current_period_end) /\ ~IsNaN(env.current_period_end)
          THEN withTrial @@
                 [currentPeriodEnd |-> ToISOString(DateFromSeconds(env.current_period_end))]
          ELSE withTrial
  IN IF userId = NULL THEN Outcome(us, FALSE, IO(h, 0, 0, 0))
     ELSE IF env.fault = "stripe" THEN Outcome(us, TRUE, IO(h, 1, 0, 0))
     ELSE IF UpdateThrows(userId, env.fault) THEN Outcome(us, TRUE, IO(h, 1, 0, 0))
     ELSE Outcome(UpdateDoc(us, userId, updateData), FALSE, IO(h, 1, 0, 1))

\* src/server.js handleCheckoutCompleted(session)
handleCheckoutCompleted(us, e, env) ==
  LET h == "handleCheckoutCompleted"
      userId == e.cref
      status == IF env.status = "trialing" THEN "trial" ELSE "premium"
      base == [stripeCustomerId |-> e.customer,
               stripeSubscriptionId |-> e.sub,
               subscriptionStatus |-> status,
               updatedAt |-> SERVER_TS]
      withTrial ==
        IF Truthy(env.trial_end) /\ ~IsNaN(env.trial_end)
          THEN base @@ [trialEndsAt |-> ToISOString(DateFromSeconds(env.trial_end))]
          ELSE base
      updateData ==
        IF Truthy(env.current_period_end) /\ ~IsNaN(env.current_period_end)
          THEN withTrial @@
                 [currentPeriodEnd |-> ToISOString(DateFromSeconds(env.current_period_end))]
          ELSE withTrial
  IN IF userId = NULL THEN Outcome(us, FALSE, IO(h, 0, 0, 0))
     ELSE IF env.fault = "stripe" THEN Outcome(us, TRUE, IO(h, 1, 0, 0))
     ELSE IF UpdateThrows(userId, env.fault) THEN Outcome(us, TRUE, IO(h, 1, 0, 0))
     ELSE Outcome(UpdateDoc(us, userId, updateData), FALSE, IO(h, 1, 0, 1))

\* src/server.js handleSubscriptionCreated(subscription)
handleSubscriptionCreated(us, e, env) ==
  LET h == "handleSubscriptionCreated"
      i == FindByCustomer(us, e.customer)
      status == IF e.status = "trialing" THEN "trial" ELSE "premium"
      trialDate == DateFromSeconds(e.trial_end)
      periodDate == DateFromSeconds(e.current_period_end)
      patch == [stripeSubscriptionId |-> e.sub,
                subscriptionStatus |-> status,
                trialEndsAt |-> IF Truthy(e.trial_end) THEN ToISOString(trialDate) ELSE NULL_T,
                currentPeriodEnd |-> ToISOString(periodDate),
                updatedAt |-> SERVER_TS]
  IN IF env.fault = "store" THEN Outcome(us, TRUE, IO(h, 0, 0, 0))
     ELSE IF i = 0 THEN Outcome(us, FALSE, IO(h, 0, 1, 0))
     ELSE IF (Truthy(e.trial_end) /\ ToISOStringThrows(trialDate))
               \/ ToISOStringThrows(periodDate)
       THEN Outcome(us, TRUE, IO(h, 0, 1, 0))
     ELSE Outcome(UpdateDoc(us, DocUsers[i], patch), FALSE, IO(h, 0, 1, 1))

\* src/server.js handleSubscriptionUpdated(subscription): the status mapping
SubscriptionUpdatedStatus(providerStatus) ==
  IF providerStatus = "active" THEN "premium"
  ELSE IF providerStatus = "trialing" THEN "trial"
  ELSE IF providerStatus = "canceled" \/ providerStatus = "incomplete_expired" THEN "free"
  ELSE "free"

\* handleSubscriptionUpdated leaving subscriptionWillCancelAt alone when the
\* subscription is not flagged to cancel
handleSubscriptionUpdated_keepsCancel(us, e, env) ==
  LET h == "handleSubscriptionUpdated"
      i == FindByCustomer(us, e.customer)
      periodDate == DateFromSeconds(e.current_period_end)
      base ==
        [subscriptionStatus |-> SubscriptionUpdatedStatus(e.status),
         currentPeriodEnd |-> ToISOString(periodDate),
         updatedAt |-> SERVER_TS]
      updateData ==
        IF e.cancel_at_period_end
          THEN base @@ [subscriptionWillCancelAt |-> ToISOString(periodDate)]
          ELSE base
  IN IF env.fault = "store" THEN Outcome(us, TRUE, IO(h, 0, 0, 0))
     ELSE IF i = 0 THEN Outcome(us, FALSE, IO(h, 0, 1, 0))
     ELSE IF ToISOStringThrows(periodDate) THEN Outcome(us, TRUE, IO(h, 0, 1, 0))
     ELSE Outcome(UpdateDoc(us, DocUsers[i], updateData), FALSE, IO(h, 0, 1, 1))

\* src/server.js handleSubscriptionUpdated(subscription)
handleSubscriptionUpdated(us, e, env) ==
  LET h == "handleSubscriptionUpdated"
      i == FindByCustomer(us, e.customer)
      periodDate == DateFromSeconds(e.current_period_end)
      updateData ==
        [subscriptionStatus |-> SubscriptionUpdatedStatus(e.status),
         currentPeriodEnd |-> ToISOString(periodDate),
         updatedAt |-> SERVER_TS,
         subscriptionWillCancelAt |->
           IF e.cancel_at_period_end THEN ToISOString(periodDate) ELSE DELETE_T]
  IN IF env.fault = "store" THEN Outcome(us, TRUE, IO(h, 0, 0, 0))
     ELSE IF i = 0 THEN Outcome(us, FALSE, IO(h, 0, 1, 0))
     ELSE IF ToISOStringThrows(periodDate) THEN Outcome(us, TRUE, IO(h, 0, 1, 0))
     ELSE Outcome(UpdateDoc(us, DocUsers[i], updateData), FALSE, IO(h, 0, 1, 1))

\* the update of handleSubscriptionDeleted leaving the pending cancellation
SubscriptionDeletedPatch_keepsCancel ==
  [subscriptionStatus |-> "free",
   stripeSubscriptionId |-> DELETE,
   updatedAt |-> SERVER_TS]

\* the document update of handleSubscriptionDeleted
SubscriptionDeletedPatch ==
  [subscriptionStatus |-> "free",
   stripeSubscriptionId |-> DELETE,
   subscriptionWillCancelAt |-> DELETE_T,
   updatedAt |-> SERVER_TS]

\* src/server.js handleSubscriptionDeleted(subscription)
handleSubscriptionDeleted(us, e, env) ==
  LET h == "handleSubscriptionDeleted"
      i == FindByCustomer(us, e.customer)
  IN IF env.fault = "store" THEN Outcome(us, TRUE, IO(h, 0, 0, 0))
     ELSE IF i = 0 THEN Outcome(us, FALSE, IO(h, 0, 1, 0))
     ELSE Outcome(UpdateDoc(us, DocUsers[i], SubscriptionDeletedPatch), FALSE, IO(h, 0, 1, 1))

\* handlePaymentSucceeded taking the failure flag back
handlePaymentSucceeded_clearsFlag(us, e, env) ==
  LET h == "handlePaymentSucceeded"
      i == FindByCustomer(us, CustomerOf(e.sub))
      periodDate == DateFromSeconds(env.current_period_end)
      patch == [subscriptionStatus |-> "premium",
                currentPeriodEnd |-> ToISOString(periodDate),
                paymentFailed |-> "false",
                updatedAt |-> SERVER_TS]
  IN IF e.sub = NULL THEN Outcome(us, FALSE, IO(h, 0, 0, 0))
     ELSE IF env.fault = "stripe" THEN Outcome(us, TRUE, IO(h, 1, 0, 0))
     ELSE IF env.fault = "store" THEN Outcome(us, TRUE, IO(h, 1, 0, 0))
     ELSE IF i = 0 THEN Outcome(us, FALSE, IO(h, 1, 1, 0))
     ELSE IF ToISOStringThrows(periodDate) THEN Outcome(us, TRUE, IO(h, 1, 1, 0))
     ELSE Outcome(UpdateDoc(us, DocUsers[i], patch), FALSE, IO(h, 1, 1, 1))

\* src/server.js handlePaymentSucceeded(invoice)
handlePaymentSucceeded(us, e, env) ==
  LET h == "handlePaymentSucceeded"
      i == FindByCustomer(us, CustomerOf(e.sub))
      periodDate == DateFromSeconds(env.current_period_end)
      patch == [subscriptionStatus |-> "premium",
                currentPeriodEnd |-> ToISOString(periodDate),
                updatedAt |-> SERVER_TS]
  IN IF e.sub = NULL THEN Outcome(us, FALSE, IO(h, 0, 0, 0))
     ELSE IF env.fault = "stripe" THEN Outcome(us, TRUE, IO(h, 1, 0, 0))
     ELSE IF env.fault = "store" THEN Outcome(us, TRUE, IO(h, 1, 0, 0))
     ELSE IF i = 0 THEN Outcome(us, FALSE, IO(h, 1, 1, 0))
     ELSE IF ToISOStringThrows(periodDate) THEN Outcome(us, TRUE, IO(h, 1, 1, 0))
     ELSE Outcome(UpdateDoc(us, DocUsers[i], patch), FALSE, IO(h, 1, 1, 1))

\* the update of handlePaymentFailed downgrading the user as well
PaymentFailedPatch_downgrading(t) ==
  [subscriptionStatus |-> "free",
   paymentFailed |-> "true",
   paymentFailedAt |-> ToISOString(t),
   updatedAt |-> SERVER_TS]

\* the document update of handlePaymentFailed at time t (new Date() is t)
PaymentFailedPatch(t) ==
  [paymentFailed |-> "true",
   paymentFailedAt |-> ToISOString(t),
   updatedAt |-> SERVER_TS]

\* src/server.js handlePaymentFailed(invoice)
handlePaymentFailed(us, e, env, t) ==
  LET h == "handlePaymentFailed"
      i == FindByCustomer(us, CustomerOf(e.sub))
  IN IF e.sub = NULL THEN Outcome(us, FALSE, IO(h, 0, 0, 0))
     ELSE IF env.fault = "stripe" THEN Outcome(us, TRUE, IO(h, 1, 0, 0))
     ELSE IF env.fault = "store" THEN Outcome(us, TRUE, IO(h, 1, 0, 0))
     ELSE IF i = 0 THEN Outcome(us, FALSE, IO(h, 1, 1, 0))
     ELSE Outcome(UpdateDoc(us, DocUsers[i], PaymentFailedPatch(t)), FALSE, IO(h, 1, 1, 1))

\* the switch of handleStripeWebhook throwing on an event type it has no case for
DispatchEvent_unknownThrows(us, e, env, t) ==
  CASE e.type = "checkout.session.completed" -> handleCheckoutCompleted(us, e, env)
    [] e.type = "customer.subscription.created" -> handleSubscriptionCreated(us, e, env)
    [] e.type = "customer.subscription.updated" -> handleSubscriptionUpdated(us, e, env)
    [] e.type = "customer.subscription.deleted" -> handleSubscriptionDeleted(us, e, env)
    [] e.type = "invoice.payment_succeeded" -> handlePaymentSucceeded(us, e, env)
    [] e.type = "invoice.payment_failed" -> handlePaymentFailed(us, e, env, t)
    [] OTHER -> Outcome(us, TRUE, IO("none", 0, 0, 0))

\* the switch of handleStripeWebhook
DispatchEvent(us, e, env, t) ==
  CASE e.type = "checkout.session.completed" -> handleCheckoutCompleted(us, e, env)
    [] e.type = "customer.subscription.created" -> handleSubscriptionCreated(us, e, env)
    [] e.type = "customer.subscription.updated" -> handleSubscriptionUpdated(us, e, env)
    [] e.type = "customer.subscription.deleted" -> handleSubscriptionDeleted(us, e, env)
    [] e.type = "invoice.payment_succeeded" -> handlePaymentSucceeded(us, e, env)
    [] e.type = "invoice.payment_failed" -> handlePaymentFailed(us, e, env, t)
    [] OTHER -> Outcome(us, FALSE, IO("none", 0, 0, 0))

(***************************************************************************)
(* Signatures.  Stripe signs the raw payload with the endpoint's secret;   *)
(* stripe.webhooks.constructEvent recomputes the signature over the body   *)
(* it is given and throws unless the header carries the same value.        *)
(***************************************************************************)
WebhookSecret == "whsec_live"

Sign(secret, payload) == <<secret, payload>>

NoSignature == <<>>

\* a delivery: the raw body, the stripe-signature header
Delivery(body, sig) == [body |-> body, sig |-> sig]

\* constructEvent checking only that a signature header is present
constructEventThrows_presenceOnly(d, secret) == d.sig = NoSignature

constructEventThrows(d, secret) == d.sig = NoSignature \/ d.sig # Sign(secret, d.body)

\* src/server.js handleStripeWebhook(req, res): the response status and the
\* users collection afterwards
handleStripeWebhook(us, d, env, t) ==
  IF constructEventThrows(d, WebhookSecret)
    THEN [users |-> us, resp |-> 400, io |-> IO("none", 0, 0, 0)]
    ELSE LET out == DispatchEvent(us, d.body, env, t)
         IN [users |-> out.users,
             resp |-> IF out.thrown THEN 500 ELSE 200,
             io |-> out.io]

\* the deliveries Stripe makes
SignedDeliveries == { Delivery(e, Sign(WebhookSecret, e)) : e \in Events }

\* deliveries that are not Stripe's: no signature header, a signature made
\* with another secret, a signature of another payload
TamperedBodies == CheckoutEvents \cup DeletedEvents

ForgedDeliveries ==
  { Delivery(e, NoSignature) : e \in TamperedBodies }
    \cup { Delivery(e, Sign("whsec_other", e)) : e \in TamperedBodies }
    \cup { Delivery(e, Sign(WebhookSecret, CHOOSE o \in OtherEvents : TRUE)) :
             e \in TamperedBodies }

(***************************************************************************)
(* The Apple receipt routes (src/routes/appleIAP.js).                      *)
(***************************************************************************)
ProductIds == {"pro_monthly", "pro_yearly"}

\* productId.includes('yearly')
IncludesYearly(productId) == productId = "pro_yearly"

TransactionIds == {"t1", "t2"}

\* a productId the request body does not carry
UNDEFINED == "undefined"

NoTransaction == [exists |-> FALSE, userId |-> NULL, productId |-> NULL]

\* Apple's verifyReceipt answers: a status, or no answer at all
APPLE_OK == 0
APPLE_SANDBOX_RECEIPT == 21007
APPLE_BAD_RECEIPT == 21002
APPLE_UNREACHABLE == 0 - 1

\* the endpoints of verifyReceipt
PRODUCTION == <<"https://buy.itunes.apple.com/verifyReceipt">>
SANDBOX == <<"https://sandbox.itunes.apple.com/verifyReceipt">>

\* verifyReceiptWithApple taking a sandbox receipt as verified without asking
\* the sandbox endpoint
verifyReceiptWithApple_noFallback(prodAnswer, sandboxAnswer) ==
  IF prodAnswer = APPLE_UNREACHABLE
    THEN [status |-> APPLE_UNREACHABLE, calls |-> 1, endpoints |-> PRODUCTION]
  ELSE IF prodAnswer = APPLE_SANDBOX_RECEIPT
    THEN [status |-> APPLE_OK, calls |-> 1, endpoints |-> PRODUCTION]
  ELSE [status |-> prodAnswer, calls |-> 1, endpoints |-> PRODUCTION]

\* verifyReceiptWithApple taking a service that does not answer for a
\* verification
verifyReceiptWithApple_unreachableOk(prodAnswer, sandboxAnswer) ==
  IF prodAnswer = APPLE_UNREACHABLE
    THEN [status |-> APPLE_OK, calls |-> 1, endpoints |-> PRODUCTION]
  ELSE IF prodAnswer = APPLE_SANDBOX_RECEIPT
    THEN [status |-> sandboxAnswer, calls |-> 2, endpoints |-> PRODUCTION \o SANDBOX]
  ELSE [status |-> prodAnswer, calls |-> 1, endpoints |-> PRODUCTION]

\* verifyReceiptWithApple asking the sandbox whenever production refuses
verifyReceiptWithApple_anyRefusal(prodAnswer, sandboxAnswer) ==
  IF prodAnswer = APPLE_UNREACHABLE
    THEN [status |-> APPLE_UNREACHABLE, calls |-> 1, endpoints |-> PRODUCTION]
  ELSE IF prodAnswer # APPLE_OK
    THEN [status |-> sandboxAnswer, calls |-> 2, endpoints |-> PRODUCTION \o SANDBOX]
  ELSE [status |-> prodAnswer, calls |-> 1, endpoints |-> PRODUCTION]

\* src/routes/appleIAP.js verifyReceiptWithApple(receipt, isProduction = true):
\* the status returned (APPLE_UNREACHABLE for null), the number of calls
\* made and the endpoints called, in order.  The call with isProduction
\* false, made when production answers 21007, returns what the sandbox
\* answers (null when the call throws) and calls nothing further.
verifyReceiptWithApple(prodAnswer, sandboxAnswer) ==
  IF prodAnswer = APPLE_UNREACHABLE
    THEN [status |-> APPLE_UNREACHABLE, calls |-> 1, endpoints |-> PRODUCTION]
  ELSE IF prodAnswer = APPLE_SANDBOX_RECEIPT
    THEN [status |-> sandboxAnswer, calls |-> 2, endpoints |-> PRODUCTION \o SANDBOX]
  ELSE [status |-> prodAnswer, calls |-> 1, endpoints |-> PRODUCTION]

\* setMonth(getMonth() + k): the clock counts months
AddMonths(t, k) == t + k

\* the document update of /validate-apple-receipt at time t
ValidatePatch(productId, t) ==
  [isPremium |-> "true",
   subscriptionType |-> IF IncludesYearly(productId) THEN "yearly" ELSE "monthly",
   subscriptionPlatform |-> "apple",
   appleSubscriptionDate |-> SERVER_TS,
   appleProductId |-> productId,
   appleSubscriptionExpiry |-> AddMonths(t, IF IncludesYearly(productId) THEN 12 ELSE 1),
   lastAppleReceiptValidation |-> SERVER_TS]

AppleOutcome(us, txns, status, ioRec) ==
  [users |-> us, txns |-> txns, resp |-> status, io |-> ioRec]

\* a request body and what the outside does during the request:
\*   secret   whether APPLE_SHARED_SECRET is set
\*   prod, sandbox   Apple's answers
\*   fault    the Firestore call that throws: "get", "set", "update" or "none"
ValidateEnv(secret, prod, sandbox, fault) ==
  [secret |-> secret, prod |-> prod, sandbox |-> sandbox, fault |-> fault]

\* router.post('/validate-apple-receipt')
validateAppleReceipt(us, txns, b, env, t) ==
  LET h == "validate-apple-receipt"
      v == verifyReceiptWithApple(env.prod, env.sandbox)
      calls == IF env.secret THEN v.calls ELSE 0
      dedup == b.transactionId # NULL
      stored == [txns EXCEPT ![b.transactionId] =
                   [exists |-> TRUE, userId |-> b.userId, productId |-> b.productId]]
      txns2 == IF dedup THEN stored ELSE txns
  IN IF b.receipt = NULL \/ b.userId = NULL
       THEN AppleOutcome(us, txns, 400, IOB(h, 0, 0, 0, "Missing receipt or userId"))
     ELSE IF env.secret /\ v.status # APPLE_OK
       THEN AppleOutcome(us, txns, 400, IOB(h, calls, 0, 0, "Receipt verification failed"))
     ELSE IF dedup /\ env.fault = "get"
       THEN AppleOutcome(us, txns, 500, IOB(h, calls, 0, 0, "Validation failed"))
     ELSE IF dedup /\ txns[b.transactionId].exists
       THEN AppleOutcome(us, txns, 200, IOB(h, calls, 0, 0, "alreadyProcessed"))
     ELSE IF dedup /\ (env.fault = "set" \/ b.productId = UNDEFINED)
       THEN AppleOutcome(us, txns, 500, IOB(h, calls, 0, 0, "Validation failed"))
     ELSE IF b.productId \in {UNDEFINED, NULL}
       THEN AppleOutcome(us, txns2, 500, IOB(h, calls, 0, 0, "Validation failed"))
     ELSE IF env.fault = "update" \/ b.userId \notin DocUserSet
       THEN AppleOutcome(us, txns2, 500, IOB(h, calls, 0, 0, "Validation failed"))
     ELSE AppleOutcome(UpdateDoc(us, b.userId, ValidatePatch(b.productId, t)), txns2, 200,
                       IOB(h, calls, 0, 1, "upgraded"))

\* products.filter(p => p.owned)
SelectSeqOwned(products) == SelectSeq(products, LAMBDA p : p.owned)

\* the choice taking the first element whatever its id
BestProduct_first(list) == list[1]

\* list.find(p => p.id.includes('yearly')) || list[0], for a non-empty list
BestProduct(list) ==
  LET yearly == { i \in 1..Len(list) : IncludesYearly(list[i].id) }
  IN IF yearly = {} THEN list[1]
     ELSE list[CHOOSE i \in yearly : \A j \in yearly : i <= j]

\* the document update of /restore-apple-subscription
RestorePatch(best) ==
  [isPremium |-> "true",
   subscriptionType |-> IF IncludesYearly(best.id) THEN "yearly" ELSE "monthly",
   subscriptionPlatform |-> "apple",
   appleProductId |-> best.id,
   appleSubscriptionRestored |-> SERVER_TS,
   lastAppleReceiptValidation |-> SERVER_TS]

\* router.post('/restore-apple-subscription'); b.products is
\* [given |-> whether the body has the list, items |-> the list]

restoreAppleSubscription(us, txns, b, fault) ==
  LET h == "restore-apple-subscription"
      activeProducts == SelectSeqOwned(b.products.items)
      best == BestProduct(activeProducts)
  IN IF b.userId = NULL \/ ~b.products.given
       THEN AppleOutcome(us, txns, 400, IOB(h, 0, 0, 0, "Missing userId or products"))
     ELSE IF Len(activeProducts) = 0
       THEN AppleOutcome(us, txns, 200, IOB(h, 0, 0, 0, "success:false"))
     ELSE IF fault = "update" \/ b.userId \notin DocUserSet
       THEN AppleOutcome(us, txns, 500, IOB(h, 0, 0, 0, "Restore failed"))
     ELSE AppleOutcome(UpdateDoc(us, b.userId, RestorePatch(best)), txns, 200,
                       IOB(h, 0, 0, 1, "restored"))

\* the update of the sync leaving appleProductId as it was
SyncUpgradePatch_keepsProductId(best) ==
  [isPremium |-> "true",
   subscriptionType |-> IF IncludesYearly(best.id) THEN "yearly" ELSE "monthly",
   subscriptionPlatform |-> "apple",
   lastAppleReceiptValidation |-> SERVER_TS]

\* the document update of /sync-apple-subscription for an active subscription
SyncUpgradePatch(best) ==
  [isPremium |-> "true",
   subscriptionType |-> IF IncludesYearly(best.id) THEN "yearly" ELSE "monthly",
   subscriptionPlatform |-> "apple",
   appleProductId |-> best.id,
   lastAppleReceiptValidation |-> SERVER_TS]

\* the document update of /sync-apple-subscription for an expired subscription
SyncExpiredPatch ==
  [isPremium |-> "false",
   subscriptionType |-> "free",
   appleSubscriptionExpired |-> SERVER_TS]

SyncExpired_atExpiry(userData, t) ==
  /\ userData.subscriptionPlatform = "apple"
  /\ userData.appleSubscriptionExpiry # ABSENT_T
  /\ t >= userData.appleSubscriptionExpiry

\* the test of the empty-list branch: platform apple, an expiry recorded, and
\* now > expiryDate
SyncExpired(userData, t) ==
  /\ userData.subscriptionPlatform = "apple"
  /\ userData.appleSubscriptionExpiry # ABSENT_T
  /\ t > userData.appleSubscriptionExpiry

\* router.post('/sync-apple-subscription'); b.subscriptions is
\* [given |-> whether the body has the list, items |-> the list]
syncAppleSubscription(us, txns, b, fault, t) ==
  LET h == "sync-apple-subscription"
      hasDoc == b.userId \in DocUserSet
      hasActiveSubscription == b.subscriptions.given /\ Len(b.subscriptions.items) > 0
      bestSub == BestProduct(b.subscriptions.items)
  IN IF b.userId = NULL
       THEN AppleOutcome(us, txns, 400, IOB(h, 0, 0, 0, "Missing userId"))
     ELSE IF fault = "get"
       THEN AppleOutcome(us, txns, 500, IOB(h, 0, 0, 0, "Sync failed"))
     ELSE IF hasActiveSubscription
       THEN IF ~hasDoc \/ us[b.userId].isPremium # "true"
                 \/ us[b.userId].appleProductId # bestSub.id
              THEN IF fault = "update" \/ ~hasDoc
                     THEN AppleOutcome(us, txns, 500, IOB(h, 0, 1, 0, "Sync failed"))
                     ELSE AppleOutcome(UpdateDoc(us, b.userId, SyncUpgradePatch(bestSub)),
                                       txns, 200, IOB(h, 0, 1, 1, "updated"))
              ELSE AppleOutcome(us, txns, 200, IOB(h, 0, 1, 0, "updated:false"))
     ELSE IF hasDoc /\ SyncExpired(us[b.userId], t)
       THEN IF fault = "update"
              THEN AppleOutcome(us, txns, 500, IOB(h, 0, 1, 0, "Sync failed"))
              ELSE AppleOutcome(UpdateDoc(us, b.userId, SyncExpiredPatch), txns, 200,
                                IOB(h, 0, 1, 1, "expired"))
     ELSE AppleOutcome(us, txns, 200, IOB(h, 0, 1, 0, "updated:false"))

\* the update of /apple-subscription-expired resetting the status as well
ExpiredPatch_status(productId) ==
  [isPremium |-> "false",
   subscriptionType |-> "free",
   subscriptionStatus |-> "free",
   appleSubscriptionExpired |-> SERVER_TS,
   previousAppleProductId |-> productId]

\* the document update of /apple-subscription-expired
ExpiredPatch(productId) ==
  [isPremium |-> "false",
   subscriptionType |-> "free",
   appleSubscriptionExpired |-> SERVER_TS,
   previousAppleProductId |-> productId]

\* router.post('/apple-subscription-expired')
appleSubscriptionExpired(us, txns, b, fault) ==
  LET h == "apple-subscription-expired"
  IN IF b.userId = NULL
       THEN AppleOutcome(us, txns, 400, IOB(h, 0, 0, 0, "Missing userId"))
     ELSE IF fault = "update" \/ b.userId \notin DocUserSet \/ b.productId = UNDEFINED
       THEN AppleOutcome(us, txns, 500, IOB(h, 0, 0, 0, "Failed to handle expiration"))
     ELSE AppleOutcome(UpdateDoc(us, b.userId, ExpiredPatch(b.productId)), txns, 200,
                       IOB(h, 0, 0, 1, "downgraded"))

(***************************************************************************)
(* Request bodies of the receipt routes.                                   *)
(***************************************************************************)
UserIds == DocUserSet \cup {GhostUser}

ValidateBody(receipt, userId, productId, transactionId) ==
  [receipt |-> receipt, userId |-> userId, productId |-> productId,
   transactionId |-> transactionId]

ValidateBodies ==
  { ValidateBody("receipt", u, p, t) :
      u \in UserIds, p \in ProductIds \cup {UNDEFINED, NULL}, t \in TransactionIds \cup {NULL} }
    \cup { ValidateBody(NULL, "u1", "pro_monthly", "t1"),
           ValidateBody("receipt", NULL, "pro_monthly", "t1") }

ValidateEnvs ==
  { ValidateEnv(s, APPLE_OK, APPLE_OK, f) :
      s \in BOOLEAN, f \in {"none", "get", "set", "update"} }
    \cup { ValidateEnv(TRUE, p, APPLE_OK, "none") : p \in {APPLE_BAD_RECEIPT, APPLE_UNREACHABLE} }
    \cup { ValidateEnv(TRUE, APPLE_SANDBOX_RECEIPT, sb, "none") :
             sb \in {APPLE_OK, APPLE_BAD_RECEIPT, APPLE_SANDBOX_RECEIPT, APPLE_UNREACHABLE} }

Item(id, owned) == [id |-> id, owned |-> owned]

List(given, items) == [given |-> given, items |-> items]

ProductLists ==
  { List(FALSE, <<>>), List(TRUE, <<>>),
    List(TRUE, <<Item("pro_monthly", TRUE)>>),
    List(TRUE, <<Item("pro_yearly", FALSE)>>),
    List(TRUE, <<Item("pro_monthly", TRUE), Item("pro_yearly", TRUE)>>),
    List(TRUE, <<Item("pro_yearly", FALSE), Item("pro_monthly", TRUE)>>) }

SubscriptionLists ==
  { List(FALSE, <<>>), List(TRUE, <<>>),
    List(TRUE, <<Item("pro_monthly", TRUE)>>),
    List(TRUE, <<Item("pro_yearly", TRUE)>>),
    List(TRUE, <<Item("pro_monthly", TRUE), Item("pro_yearly", TRUE)>>) }

RestoreBodies ==
  { [userId |-> u, products |-> l] : u \in UserIds \cup {NULL}, l \in ProductLists }

SyncBodies ==
  { [userId |-> u, subscriptions |-> l] : u \in UserIds \cup {NULL}, l \in SubscriptionLists }

ExpiredBodies ==
  { [userId |-> u, productId |-> p] : u \in UserIds \cup {NULL}, p \in ProductIds \cup {UNDEFINED} }

(***************************************************************************)
(* The Redis read-through cache (src/server.js).  A string is a sequence   *)
(* of tokens, none containing another; a query parameter is a string or is *)
(* not given; the clock counts seconds.                                    *)
(***************************************************************************)
Param(given, text) == [given |-> given, text |-> text]

NotGiven == Param(FALSE, <<>>)

Str(text) == Param(TRUE, text)

\* a parameter inside a template literal: `${x}`
Render(p) == IF p.given THEN p.text ELSE <<"undefined">>

\* a parameter in a condition: a non-empty string
TruthyParam(p) == p.given /\ p.text # <<>>

\* p === 'true'
IsTrue(p) == p.given /\ p.text = <<"true">>

\* a cache miss
NoData == [kind |-> "null"]

\* redisClient.get(key): the entry under the key that has not expired
RedisGet(c, key, t) ==
  IF \E en \in c : en.key = key /\ en.exp > t
    THEN (CHOOSE en \in c : en.key = key /\ en.exp > t).value
    ELSE NoData

\* redisClient.setEx(key, ttl, value)
RedisSetEx(c, key, ttl, value, t) ==
  { en \in c : en.key # key } \cup {[key |-> key, value |-> value, exp |-> t + ttl]}

CACHE_TTL == 24 * 60 * 60

GEOCODE_TTL == 30 * 24 * 60 * 60

EVENTS_TTL == 6 * 60 * 60

\* getCachedData asking the store whatever isRedisConnected says and whether
\* or not it answers
getCachedData_ignoresFlag(c, flag, up, key, t) ==
  [data |-> RedisGet(c, key, t), reads |-> 1]

getCachedData_alwaysMiss(c, flag, up, key, t) ==
  [data |-> NoData, reads |-> IF flag THEN 1 ELSE 0]

\* getCachedData(key) with flag the value of isRedisConnected and up whether
\* the store answers: [data, reads]
getCachedData(c, flag, up, key, t) ==
  IF ~flag THEN [data |-> NoData, reads |-> 0]
  ELSE IF ~up THEN [data |-> NoData, reads |-> 1]
  ELSE [data |-> RedisGet(c, key, t), reads |-> 1]

\* setCachedData(key, data, ttl): the store afterwards
setCachedData(c, flag, up, key, data, ttl, t) ==
  IF flag /\ up THEN RedisSetEx(c, key, ttl, data, t) ELSE c

\* what a cached route did: the store afterwards, the status and body of the
\* response, whether the body came from the route's cache entry, and the
\* upstream calls and cache reads made
Served(c, status, body, hit, geo, nearby, events, reads) ==
  [cache |-> c, status |-> status, body |-> body, hit |-> hit,
   geocodeCalls |-> geo, nearbyCalls |-> nearby, eventsCalls |-> events, reads |-> reads]

\* address.toLowerCase(), token by token
Lower(w) == IF w = "Paris" THEN "paris" ELSE w

ToLowerCase(text) == [i \in 1..Len(text) |-> Lower(text[i])]

GeocodeKey(address) == <<"geocode", ":">> \o ToLowerCase(address.text)

\* app.get('/api/geocode'); provider is "ok" or "throw"
geocode(c, flag, up, q, provider, t) ==
  IF ~TruthyParam(q.address)
    THEN Served(c, 400, NoData, FALSE, 0, 0, 0, 0)
  ELSE LET cacheKey == GeocodeKey(q.address)
           cachedResult == getCachedData(c, flag, up, cacheKey, t)
       IN IF cachedResult.data # NoData
            THEN Served(c, 200, cachedResult.data, TRUE, 0, 0, 0, cachedResult.reads)
          ELSE IF provider = "throw"
            THEN Served(c, 500, NoData, FALSE, 1, 0, 0, cachedResult.reads)
          ELSE LET data == [kind |-> "geocode", address |-> q.address.text, at |-> t]
               IN Served(setCachedData(c, flag, up, cacheKey, data, GEOCODE_TTL, t),
                         200, data, FALSE, 1, 0, 0, cachedResult.reads)

\* the length of a word
WordLength(w) ==
  CASE w = "" -> 0
    [] w = "ab" -> 2
    [] w = "bar" -> 3
    [] OTHER -> 5

\* keyword.split(' ').filter(k => k.length > 2); the token " " separates words
SearchWords(keyword) == SelectSeq(keyword.text, LAMBDA w : w # " " /\ WordLength(w) > 2)

Colon(segments) ==
  IF Len(segments) = 1 THEN segments[1]
  ELSE LET RECURSIVE Join(_)
           Join(i) == IF i = 1 THEN segments[1] ELSE Join(i - 1) \o <<":">> \o segments[i]
       IN Join(Len(segments))

\* Date.now() inside a template literal
DateNow(t) == <<ToString(t)>>

\* the cache key of /api/places
PlacesKey(q, t) ==
  IF IsTrue(q.refresh)
    THEN Colon(<<(<<"places">>), Render(q.lat), Render(q.lng), Render(q.radius),
                 Render(q.keyword), DateNow(t)>>)
    ELSE Colon(<<(<<"places">>), Render(q.lat), Render(q.lng), Render(q.radius),
                 Render(q.keyword), Render(q.includeEvents), Render(q.dateRange),
                 Render(q.selectedDate)>>)

EventsKey(q) ==
  Colon(<<(<<"events">>), Render(q.lat), Render(q.lng), Render(q.dateRange),
          Render(q.selectedDate)>>)

\* what the outside does during a request: each nearby-search call answers
\* ("ok") or throws, and the events provider answers with events ("ok"),
\* without any ("empty"), or throws
Upstream(nearby, events) == [nearby |-> nearby, events |-> events]

\* the answer of one nearby search
NearbyResult(q, kw, t) ==
  [keyword |-> kw, lat |-> q.lat.text, lng |-> q.lng.text, radius |-> q.radius, at |-> t]

\* the events fetched for a request
EventsResult(q, t) ==
  [kind |-> "events", lat |-> q.lat.text, lng |-> q.lng.text, keyword |-> q.keyword,
   dateRange |-> q.dateRange, selectedDate |-> q.selectedDate, at |-> t]

\* the nearby searches of /api/places: [thrown, calls, results]
NearbySearches(q, up, t) ==
  IF TruthyParam(q.keyword)
    THEN LET keywords == SearchWords(q.keyword)
         IN [thrown |-> FALSE,
             calls |-> Len(keywords),
             results |-> IF up.nearby = "ok"
                           THEN [i \in 1..Len(keywords) |-> NearbyResult(q, keywords[i], t)]
                           ELSE <<>>]
    ELSE [thrown |-> up.nearby = "throw",
          calls |-> 1,
          results |-> IF up.nearby = "ok" THEN <<NearbyResult(q, "", t)>> ELSE <<>>]

\* the events part of /api/places: [cache, events, calls, reads, cached]
EventsPart(c, flag, redis, q, up, t) ==
  IF ~IsTrue(q.includeEvents)
    THEN [cache |-> c, events |-> NoData, calls |-> 0, reads |-> 0, cached |-> FALSE]
  ELSE LET eventsCacheKey == EventsKey(q)
           got == getCachedData(c, flag, redis, eventsCacheKey, t)
           fresh == EventsResult(q, t)
       IN IF got.data # NoData
            THEN [cache |-> c, events |-> got.data, calls |-> 0, reads |-> got.reads,
                  cached |-> TRUE]
          ELSE IF up.events = "ok"
            THEN [cache |-> setCachedData(c, flag, redis, eventsCacheKey, fresh, EVENTS_TTL, t),
                  events |-> fresh, calls |-> 1, reads |-> got.reads, cached |-> FALSE]
          ELSE [cache |-> c, events |-> NoData, calls |-> 1, reads |-> got.reads,
                cached |-> FALSE]

\* app.get('/api/places')
places(c, flag, redis, q, up, t) ==
  IF ~TruthyParam(q.lat) \/ ~TruthyParam(q.lng)
    THEN Served(c, 400, NoData, FALSE, 0, 0, 0, 0)
  ELSE LET cacheKey == PlacesKey(q, t)
           cachedResults == IF IsTrue(q.refresh) THEN [data |-> NoData, reads |-> 0]
                            ELSE getCachedData(c, flag, redis, cacheKey, t)
           nearby == NearbySearches(q, up, t)
           ev == EventsPart(c, flag, redis, q, up, t)
           finalResults == [kind |-> "places", results |-> nearby.results,
                            events |-> ev.events, eventsCached |-> ev.cached]
       IN IF cachedResults.data # NoData
            THEN Served(c, 200, cachedResults.data, TRUE, 0, 0, 0, cachedResults.reads)
          ELSE IF nearby.thrown
            THEN Served(c, 500, NoData, FALSE, 0, nearby.calls, 0, cachedResults.reads)
          ELSE Served(setCachedData(ev.cache, flag, redis, cacheKey, finalResults, CACHE_TTL, t),
                      200, finalResults, FALSE, 0, nearby.calls, ev.calls,
                      cachedResults.reads + ev.reads)

(***************************************************************************)
(* The cached routes as a state machine (specification SpecCache).         *)
(***************************************************************************)
GeocodeQueries ==
  { [address |-> a] : a \in {NotGiven, Str(<<>>), Str(<<"Paris">>), Str(<<"paris">>)} }

Keywords ==
  {NotGiven, Str(<<>>), Str(<<"ab">>), Str(<<"pizza">>), Str(<<"pizza", " ", "bar">>),
   Str(<<"ab", " ", "pizza">>)}

PlacesQuery(lat, lng, radius, keyword, includeEvents, dateRange, selectedDate, refresh) ==
  [lat |-> lat, lng |-> lng, radius |-> radius, keyword |-> keyword,
   includeEvents |-> includeEvents, dateRange |-> dateRange,
   selectedDate |-> selectedDate, refresh |-> refresh]

PlacesQueries ==
  { PlacesQuery(lat, Str(<<"-74">>), radius, keyword, includeEvents, dateRange, NotGiven, refresh) :
      lat \in {NotGiven, Str(<<"40">>)}, radius \in {NotGiven, Str(<<"500">>)},
      keyword \in Keywords, includeEvents \in {NotGiven, Str(<<"true">>)},
      dateRange \in {NotGiven, Str(<<"today">>)},
      refresh \in {NotGiven, Str(<<"true">>), Str(<<"false">>)} }

Upstreams == { Upstream(n, e) : n \in {"ok", "throw"}, e \in {"ok", "empty", "throw"} }

\* the queries SpecCache serves: Paris geocoded, a search for "pizza bar"
\* with events, with and without refresh, a search without keyword that the
\* provider fails, and the malformed ones; the events provider answers
\* while it is asked
GeocodeServed(q) == q.address \in {NotGiven, Str(<<"Paris">>)}

PlacesServed(q, up) ==
  /\ q.radius = NotGiven
  /\ q.dateRange = NotGiven
  /\ q.refresh # Str(<<"false">>)
  /\ up.events = "ok"
  /\ \/ q.keyword = Str(<<"pizza", " ", "bar">>) /\ q.includeEvents # NotGiven /\ up.nearby = "ok"
     \/ q.keyword = NotGiven /\ q.includeEvents = NotGiven /\ q.refresh = NotGiven
          /\ up.nearby = "throw"

MaxAdvances == 1

Advances == {EVENTS_TTL, CACHE_TTL}

MaxRefreshes == 1

NoRequest == [route |-> "none", status |-> 0, hit |-> FALSE]

LastReq(route, out) == [route |-> route, status |-> out.status, hit |-> out.hit]

\* the process after start-up: initializeRedis() has not connected yet
InitCache ==
  /\ cache = {}
  /\ isRedisConnected = FALSE
  /\ redisUp = FALSE
  /\ clock = 0
  /\ advances = 0
  /\ refreshes = 0
  /\ lastReq = NoRequest

\* GET /api/geocode
Geocode(q, provider) ==
  LET out == geocode(cache, isRedisConnected, redisUp, q, provider, clock)
  IN /\ cache' = out.cache
     /\ lastReq' = LastReq("geocode", out)
     /\ UNCHANGED <<isRedisConnected, redisUp, clock, advances, refreshes>>

\* GET /api/places
Places(q, up) ==
  LET out == places(cache, isRedisConnected, redisUp, q, up, clock)
  IN /\ IsTrue(q.refresh) => refreshes < MaxRefreshes
     /\ refreshes' = IF IsTrue(q.refresh) THEN refreshes + 1 ELSE refreshes
     /\ cache' = out.cache
     /\ lastReq' = LastReq("places", out)
     /\ UNCHANGED <<isRedisConnected, redisUp, clock, advances>>

\* redisClient.on('ready')
RedisReady ==
  /\ ~redisUp
  /\ redisUp' = TRUE
  /\ isRedisConnected' = TRUE
  /\ UNCHANGED <<cache, clock, advances, refreshes, lastReq>>

\* the connection to the store breaks
RedisLost ==
  /\ redisUp
  /\ redisUp' = FALSE
  /\ UNCHANGED <<cache, isRedisConnected, clock, advances, refreshes, lastReq>>

\* redisClient.on('error')
RedisError ==
  /\ ~redisUp
  /\ isRedisConnected
  /\ isRedisConnected' = FALSE
  /\ UNCHANGED <<cache, redisUp, clock, advances, refreshes, lastReq>>

\* time passes; the store drops the entries that expire
Advance(d) ==
  /\ advances < MaxAdvances
  /\ advances' = advances + 1
  /\ clock' = clock + d
  /\ cache' = { en \in cache : en.exp > clock + d }
  /\ UNCHANGED <<isRedisConnected, redisUp, refreshes, lastReq>>

GeocodeRequests == { x \in GeocodeQueries \X {"ok", "throw"} : GeocodeServed(x[1]) }

PlacesRequests == { x \in PlacesQueries \X Upstreams : PlacesServed(x[1], x[2]) }

NextGeocode == \E x \in GeocodeRequests : Geocode(x[1], x[2])

NextPlaces == \E x \in PlacesRequests : Places(x[1], x[2])

NextAdvance == \E d \in Advances : Advance(d)

NextCache ==
  (NextGeocode \/ NextPlaces \/ RedisReady \/ RedisLost \/ RedisError \/ NextAdvance)
    /\ UNCHANGED <<ledgerVars, limiterVars>>

(***************************************************************************)
(* Admission control (src/server.js, express-rate-limit).  One client is   *)
(* followed; the clock counts seconds.                                     *)
(***************************************************************************)
GENERAL_MAX == 100
PLACES_MAX == 60
GEOCODE_MAX == 50
PHOTO_MAX == 100
CHECKOUT_MAX == 10
UPLOAD_MAX == 20

Limiters == {"general", "places", "geocode", "photo", "checkout", "upload"}

\* max of each limiter
MaxOf(l) ==
  CASE l = "general" -> GENERAL_MAX
    [] l = "places" -> PLACES_MAX
    [] l = "geocode" -> GEOCODE_MAX
    [] l = "photo" -> PHOTO_MAX
    [] l = "checkout" -> CHECKOUT_MAX
    [] l = "upload" -> UPLOAD_MAX

\* windowMs of each limiter, in seconds
WindowOf(l) == IF l = "places" THEN 24 * 60 * 60 ELSE 15 * 60

\* the chain without app.use('/api/', generalLimiter)
Chain_ownOnly(class) == <<class>>

Chain_generalOnly(class) == <<"general">>

\* the limiters a request of a route class goes through, in order:
\* app.use('/api/', generalLimiter), then the limiter of the route; the
\* class "general" is a route under /api/ without a limiter of its own
Chain(class) == IF class = "general" THEN <<"general">> ELSE <<"general", class>>

\* one limiter of express-rate-limit for the client: the counter after the
\* request and whether the request passes
rateLimit(counter, l, t) ==
  LET current == IF t >= counter.resetTime
                   THEN [count |-> 0, resetTime |-> t + WindowOf(l)]
                   ELSE counter
      hit == [current EXCEPT !.count = current.count + 1]
  IN [counter |-> hit, pass |-> hit.count <= MaxOf(l)]

\* a request of a route class at time t: the counters afterwards and the
\* status, 429 from the first limiter that rejects and 200 for a request
\* that reaches its route
Admission(h, class, t) ==
  LET chain == Chain(class)
      first == rateLimit(h[chain[1]], chain[1], t)
      h1 == [h EXCEPT ![chain[1]] = first.counter]
  IN IF ~first.pass THEN [hits |-> h1, status |-> 429]
     ELSE IF Len(chain) = 1 THEN [hits |-> h1, status |-> 200]
     ELSE LET second == rateLimit(h1[chain[2]], chain[2], t)
              h2 == [h1 EXCEPT ![chain[2]] = second.counter]
          IN [hits |-> h2, status |-> IF second.pass THEN 200 ELSE 429]

MaxExcess == 1

\* no request yet; the client followed sends requests of one of the classes
InitLimiter(classes) ==
  /\ hits = [l \in Limiters |-> [count |-> 0, resetTime |-> 0]]
  /\ focus \in classes
  /\ sent = 0
  /\ windowEnd = 0
  /\ lstatus = 0

\* the client sends a request of its route class; sent counts its requests
\* in the window that its first request opened
Request ==
  LET out == Admission(hits, focus, clock)
      fresh == clock >= windowEnd
  IN /\ fresh \/ sent < MaxOf(focus) + MaxExcess
     /\ hits' = out.hits
     /\ lstatus' = out.status
     /\ sent' = IF fresh THEN 1 ELSE sent + 1
     /\ windowEnd' = IF fresh THEN clock + WindowOf(focus) ELSE windowEnd
     /\ UNCHANGED <<focus, clock, advances>>

\* time passes
Wait(d) ==
  /\ advances < MaxAdvances
  /\ advances' = advances + 1
  /\ clock' = clock + d
  /\ UNCHANGED <<hits, focus, sent, windowEnd, lstatus>>

NextWait == \E l \in Limiters : Wait(WindowOf(l))

NextLimiter ==
  (Request \/ NextWait)
    /\ UNCHANGED <<ledgerVars, cache, isRedisConnected, redisUp, refreshes, lastReq>>

(***************************************************************************)
(* The ledger as a state machine.  Two specifications explore it: Spec     *)
(* delivers webhooks, SpecApple serves the receipt routes.  In each, one   *)
(* user goes through every request and the other through a reduced set,    *)
(* and starts as a subscriber of the other platform.                       *)
(***************************************************************************)
\* a user document as the client creates it at sign-up
NewUserDoc == [f \in Fields |-> IF f = "subscriptionStatus" THEN "free" ELSE Absent(f)]

\* a user who bought the monthly product in the app at time 0
AppleUserDoc == ApplyPatch(NewUserDoc, ValidatePatch("pro_monthly", 0))

\* a user in the trial of a web checkout
WebUserDoc ==
  ApplyPatch(NewUserDoc,
             [stripeCustomerId |-> "c2", stripeSubscriptionId |-> "s2",
              subscriptionStatus |-> "trial", updatedAt |-> SERVER_TS,
              trialEndsAt |-> ToISOString(DateFromSeconds(T1)),
              currentPeriodEnd |-> ToISOString(DateFromSeconds(T2))])

MaxTime == 2

InitLedger(u2doc) ==
  /\ users = [u \in DocUserSet |-> IF u = "u1" THEN NewUserDoc ELSE u2doc]
  /\ appleTransactions = [t \in TransactionIds |-> NoTransaction]
  /\ now = 0
  /\ resp = 0
  /\ inflight = [r \in {} |-> 0]

\* every delivery of Stripe's with every answer of the outside, and the
\* deliveries that are not Stripe's
WebhookInputs ==
  UNION { { <<d, env>> : env \in EnvsFor(d.body) } : d \in SignedDeliveries }
    \cup { <<d, NoEnv>> : d \in ForgedDeliveries }

\* The inputs the specification delivers: everything about subscription s1,
\* and of s2 its checkout (in trial), its deletion and its invoices; calls
\* fail only while an event of s1 is handled.
Delivered(d, env) ==
  LET e == d.body
  IN IF e.sub = "s2"
       THEN /\ env.fault = "none"
            /\ e.type \in {"checkout.session.completed", "customer.subscription.deleted",
                           "invoice.payment_succeeded", "invoice.payment_failed"}
            /\ e.type = "checkout.session.completed" => env = Env("trialing", T1, T2, "none")
            /\ e.type = "invoice.payment_succeeded" => env.current_period_end = T2
     ELSE IF e.sub \in {"s3", "s4"}
       THEN /\ env.fault = "none"
            /\ e.type = "checkout.session.completed" => env = Env("trialing", T1, T2, "none")
            /\ e.trial_end \in {NULL_T, T1}
            /\ e.current_period_end \in {NULL_T, T2}
     ELSE TRUE

DeliveredInputs == { x \in WebhookInputs : Delivered(x[1], x[2]) }

\* POST /api/webhook
Webhook(d, env) ==
  LET out == handleStripeWebhook(users, d, env, now)
  IN /\ users' = out.users
     /\ resp' = out.resp
     /\ UNCHANGED <<appleTransactions, now>>

AppleStep(out) ==
  /\ users' = out.users
  /\ appleTransactions' = out.txns
  /\ resp' = out.resp
  /\ UNCHANGED now

\* POST /api/validate-apple-receipt
ValidateReceipt(b, env) == AppleStep(validateAppleReceipt(users, appleTransactions, b, env, now))

\* POST /api/restore-apple-subscription
Restore(b, fault) == AppleStep(restoreAppleSubscription(users, appleTransactions, b, fault))

\* POST /api/sync-apple-subscription
Sync(b, fault) == AppleStep(syncAppleSubscription(users, appleTransactions, b, fault, now))

\* POST /api/apple-subscription-expired
Expired(b, fault) == AppleStep(appleSubscriptionExpired(users, appleTransactions, b, fault))

\* a month passes
Tick ==
  /\ now < MaxTime
  /\ now' = now + 1
  /\ UNCHANGED <<users, appleTransactions, resp>>

InitOther == InitCache /\ InitLimiter({"general"})

Init == InitLedger(AppleUserDoc) /\ InitOther

NextWebhook == \E x \in DeliveredInputs : Webhook(x[1], x[2])

Next == NextWebhook /\ UNCHANGED <<cacheVars, limiterVars, inflight>>

Spec == Init /\ [][Next]_vars

\* The requests SpecApple serves: u1 sends every kind of request, u2 validates
\* one monthly purchase and syncs an empty list, and the outside fails only
\* during requests of u1 (a store call while no secret is configured, or
\* Apple's answer).
ValidateServed(b, env) ==
  \/ /\ b.userId = "u1" /\ b.transactionId \in {"t1", NULL} /\ b.productId # NULL
     /\ env.fault # "none" => ~env.secret
     /\ env.prod = APPLE_SANDBOX_RECEIPT => env.sandbox \in {APPLE_OK, APPLE_SANDBOX_RECEIPT}
  \/ b.userId = "u1" /\ b.transactionId = "t2" /\ b.productId = "pro_yearly"
       /\ env = ValidateEnv(TRUE, APPLE_OK, APPLE_OK, "none")
  \/ b.userId = "u2" /\ b.transactionId = "t2" /\ b.productId = "pro_monthly"
       /\ env = ValidateEnv(FALSE, APPLE_OK, APPLE_OK, "none")
  \/ b.userId \in {NULL, GhostUser} /\ b.transactionId = "t1" /\ b.productId = "pro_monthly"
       /\ env = ValidateEnv(FALSE, APPLE_OK, APPLE_OK, "none")

RestoreServed(b, fault) ==
  \/ b.userId = "u1" /\ Len(b.products.items) < 2
  \/ b.userId = "u1" /\ Len(SelectSeqOwned(b.products.items)) = 2 /\ fault = "none"
  \/ b.userId \in {NULL, GhostUser} /\ Len(b.products.items) = 1 /\ fault = "none"

SyncServed(b, fault) ==
  \/ b.userId = "u1" /\ (fault # "none" => Len(b.subscriptions.items) < 2)
  \/ b.userId = "u2" /\ Len(b.subscriptions.items) = 0 /\ fault = "none"
  \/ b.userId \in {NULL, GhostUser} /\ b.subscriptions.given /\ Len(b.subscriptions.items) < 2
       /\ fault = "none"

InitApple == InitLedger(WebUserDoc) /\ InitOther

ValidateRequests == { x \in ValidateBodies \X ValidateEnvs : ValidateServed(x[1], x[2]) }

RestoreRequests == { x \in RestoreBodies \X {"none", "update"} : RestoreServed(x[1], x[2]) }

SyncRequests == { x \in SyncBodies \X {"none", "get", "update"} : SyncServed(x[1], x[2]) }

ExpiredRequests ==
  { x \in ExpiredBodies \X {"none", "update"} :
      x[1].userId # "u2" /\ (x[2] = "none" \/ x[1].productId = "pro_monthly") }

NextValidate == \E x \in ValidateRequests : ValidateReceipt(x[1], x[2])

NextRestore == \E x \in RestoreRequests : Restore(x[1], x[2])

NextSync == \E x \in SyncRequests : Sync(x[1], x[2])

NextExpired == \E x \in ExpiredRequests : Expired(x[1], x[2])

NextApple ==
  (NextValidate \/ NextRestore \/ NextSync \/ NextExpired \/ Tick)
    /\ UNCHANGED <<cacheVars, limiterVars, inflight>>

SpecApple == InitApple /\ [][NextApple]_vars

SpecCache == Init /\ [][NextCache]_vars

InitAdmission == InitLedger(AppleUserDoc) /\ InitCache /\ InitLimiter(Limiters)

SpecLimiter == InitAdmission /\ [][NextLimiter]_vars

(***************************************************************************)
(* Properties of the webhook processor (specification Spec).               *)
(***************************************************************************)
SignedInputs == { x \in WebhookInputs : x[1] \in SignedDeliveries }

HandledTypes ==
  {"checkout.session.completed", "customer.subscription.created",
   "customer.subscription.updated", "customer.subscription.deleted",
   "invoice.payment_succeeded", "invoice.payment_failed"}

EntitlementFields ==
  {"subscriptionStatus", "stripeCustomerId", "stripeSubscriptionId", "trialEndsAt",
   "currentPeriodEnd", "subscriptionWillCancelAt", "paymentFailed"}

Entitlements(us) == [u \in DocUserSet |-> [f \in EntitlementFields |-> us[u][f]]]

MaxReplays == 2

\* the users collection after the delivery x has been made k times in a row
RECURSIVE Replay(_, _, _)
Replay(us, x, k) ==
  IF k = 0 THEN us
  ELSE handleStripeWebhook(Replay(us, x, k - 1), x[1], x[2], now).users

\* C1: delivering the same signed event k >= 1 times in a row (the provider
\* answering the handler's re-fetch the same way each time) leaves every
\* user's entitlement fields as one delivery leaves them.
C1_Idempotent ==
  \A x \in SignedInputs : \A k \in 1..MaxReplays :
    x[1].body.type \in HandledTypes =>
      Entitlements(Replay(users, x, k)) = Entitlements(Replay(users, x, 1))

\* an event that wrote a user document has been handled, and delivering it
\* again changes nothing
C1_Witness ==
  /\ resp = 200
  /\ users["u1"].subscriptionStatus = "premium"
  /\ \E x \in SignedInputs :
       /\ x[1].body.type = "customer.subscription.updated"
       /\ handleStripeWebhook(users, x[1], x[2], now).io.writes = 1
       /\ Entitlements(handleStripeWebhook(users, x[1], x[2], now).users) = Entitlements(users)

\* the checkout events of a user with a document whose subscription is in
\* trial with a numeric trial_end, handled without a failing call
TrialCheckouts ==
  { x \in SignedInputs :
      /\ x[1].body.type = "checkout.session.completed"
      /\ x[1].body.cref \in DocUserSet
      /\ x[2].status = "trialing"
      /\ x[2].trial_end = T1
      /\ x[2].fault = "none" }

\* C6: after checkout.session.completed for user u whose subscription is
\* trialing with a valid numeric trial_end, u's document has
\* subscriptionStatus 'trial', trialEndsAt the trial_end instant, the
\* session's customer and subscription ids, and its subscriptionPlatform
\* as before.
C6_CheckoutTrial ==
  \A x \in TrialCheckouts :
    LET e == x[1].body
        out == handleStripeWebhook(users, x[1], x[2], now)
        doc == out.users[e.cref]
    IN /\ out.resp = 200
       /\ doc.subscriptionStatus = "trial"
       /\ doc.trialEndsAt = x[2].trial_end * 1000
       /\ doc.stripeCustomerId = e.customer
       /\ doc.stripeSubscriptionId = e.sub
       /\ doc.subscriptionPlatform = users[e.cref].subscriptionPlatform

\* the app subscriber u2 has gone through such a checkout
C6_Witness ==
  /\ resp = 200
  /\ users["u2"].subscriptionStatus = "trial"
  /\ users["u2"].trialEndsAt = T1 * 1000
  /\ users["u2"].stripeCustomerId = "c2"
  /\ users["u2"].stripeSubscriptionId = "s2"
  /\ users["u2"].subscriptionPlatform = "apple"

\* C7: after customer.subscription.deleted whose customer id is the
\* stripeCustomerId of user u, whatever u's state before, u's document has
\* subscriptionStatus 'free' and neither stripeSubscriptionId nor
\* subscriptionWillCancelAt.
C7_Deleted ==
  \A x \in SignedInputs : \A u \in DocUserSet :
    LET e == x[1].body
        out == handleStripeWebhook(users, x[1], x[2], now)
    IN (/\ e.type = "customer.subscription.deleted"
        /\ users[u].stripeCustomerId = e.customer
        /\ x[2].fault = "none")
       => /\ out.resp = 200
          /\ out.users[u].subscriptionStatus = "free"
          /\ out.users[u].stripeSubscriptionId = ABSENT
          /\ out.users[u].subscriptionWillCancelAt = ABSENT_T

\* the deletion has been handled for u1
C7_Witness ==
  /\ resp = 200
  /\ users["u1"].stripeCustomerId = "c1"
  /\ users["u1"].subscriptionStatus = "free"
  /\ users["u1"].stripeSubscriptionId = ABSENT
  /\ users["u1"].currentPeriodEnd = T2 * 1000

\* every body with each kind of bad signature, the outside answering well
BadSignatureInputs ==
  UNION { { <<Delivery(e, sg), Env("trialing", T1, T2, "none")>> :
              sg \in {NoSignature, Sign("whsec_other", e),
                      Sign(WebhookSecret, CHOOSE o \in OtherEvents : TRUE)} } :
          e \in Events \ OtherEvents }

\* C9: a delivery whose signature is missing or does not verify against the
\* raw payload and the secret is answered 400, no handler runs for it, and
\* no user document is read or written.
C9_BadSignature ==
  \A x \in BadSignatureInputs \cup { y \in WebhookInputs : y[1] \in ForgedDeliveries } :
    LET out == handleStripeWebhook(users, x[1], x[2], now)
    IN /\ out.resp = 400
       /\ out.io = IO("none", 0, 0, 0)
       /\ out.users = users

\* a forged delivery has been answered while a user holds a subscription
C9_Witness ==
  /\ resp = 400
  /\ users["u1"].stripeSubscriptionId = "s1"

\* C10: invoice.payment_failed never changes subscriptionStatus: it writes
\* paymentFailed = true, paymentFailedAt and updatedAt only; and whatever
\* the event, a user's subscriptionStatus becomes 'free' only when a
\* customer.subscription.updated or customer.subscription.deleted event is
\* handled.
C10_PaymentFailedFlagsOnly ==
  \A x \in SignedInputs : \A u \in DocUserSet :
    LET e == x[1].body
        out == handleStripeWebhook(users, x[1], x[2], now)
    IN /\ e.type = "invoice.payment_failed" =>
            /\ \A f \in Fields \ {"paymentFailed", "paymentFailedAt", "updatedAt"} :
                 out.users[u][f] = users[u][f]
            /\ out.users[u] # users[u] =>
                 /\ out.users[u].paymentFailed = "true"
                 /\ out.users[u].paymentFailedAt = now
                 /\ out.users[u].updatedAt = SERVER_TS
       /\ (users[u].subscriptionStatus # "free" /\ out.users[u].subscriptionStatus = "free")
            => e.type \in {"customer.subscription.updated", "customer.subscription.deleted"}

\* a failed payment has been flagged on a premium user
C10_Witness ==
  /\ resp = 200
  /\ users["u1"].paymentFailed = "true"
  /\ users["u1"].subscriptionStatus = "premium"

(***************************************************************************)
(* Properties of the receipt routes (specification SpecApple).             *)
(***************************************************************************)
\* the requests that complete a fresh purchase under a transaction id
FreshPurchases ==
  { x \in ValidateBodies \X ValidateEnvs :
      /\ x[1].transactionId # NULL
      /\ validateAppleReceipt(users, appleTransactions, x[1], x[2], now).io.body = "upgraded" }

\* C2: when a /validate-apple-receipt request with a transaction id has
\* completed the purchase, a following well-formed request with the same
\* transaction id, served without a store failure under the same
\* configuration, answers success with alreadyProcessed, and the two
\* requests together update a user document exactly once.
C2_Dedup ==
  \A x \in FreshPurchases :
    LET o1 == validateAppleReceipt(users, appleTransactions, x[1], x[2], now)
    IN \A b2 \in ValidateBodies, env2 \in ValidateEnvs :
         (/\ b2.transactionId = x[1].transactionId
          /\ b2.receipt # NULL
          /\ b2.userId # NULL
          /\ env2.secret = x[2].secret
          /\ env2.fault = "none")
         => LET o2 == validateAppleReceipt(o1.users, o1.txns, b2, env2, now)
            IN /\ o2.resp = 200
               /\ o2.io.body = "alreadyProcessed"
               /\ o1.io.writes + o2.io.writes = 1

\* the sync requests that report no active subscription
EmptySyncs == { b \in SyncBodies : b.userId # NULL /\ Len(b.subscriptions.items) = 0 }

\* C8: /sync-apple-subscription with an empty or absent subscription list,
\* served without a store failure, writes the user document exactly when the
\* document has subscriptionPlatform 'apple' and an appleSubscriptionExpiry
\* earlier than the current time; the write sets isPremium false and
\* subscriptionType 'free', and without it every document is as before.
C8_SyncEmpty ==
  \A b \in EmptySyncs :
    LET out == syncAppleSubscription(users, appleTransactions, b, "none", now)
        expired == /\ b.userId \in DocUserSet
                   /\ users[b.userId].subscriptionPlatform = "apple"
                   /\ users[b.userId].appleSubscriptionExpiry # ABSENT_T
                   /\ users[b.userId].appleSubscriptionExpiry < now
    IN /\ out.resp = 200
       /\ out.txns = appleTransactions
       /\ (out.io.writes = 1) <=> expired
       /\ expired =>
            /\ out.users[b.userId].isPremium = "false"
            /\ out.users[b.userId].subscriptionType = "free"
            /\ \A u \in DocUserSet \ {b.userId} : out.users[u] = users[u]
       /\ ~expired => out.users = users /\ out.io.writes = 0

\* u1's monthly purchase ran out and a sync, not an expiry notice, downgraded it
C8_Witness ==
  /\ resp = 200
  /\ users["u1"].subscriptionPlatform = "apple"
  /\ users["u1"].appleSubscriptionExpiry # ABSENT_T
  /\ users["u1"].appleSubscriptionExpiry < now
  /\ users["u1"].isPremium = "false"
  /\ users["u1"].subscriptionType = "free"
  /\ users["u1"].appleSubscriptionExpired = SERVER_TS
  /\ users["u1"].previousAppleProductId = ABSENT

(***************************************************************************)
(* Properties of the cached routes (specification SpecCache).              *)
(***************************************************************************)
StoreConnected == isRedisConnected /\ redisUp

\* well-formed searches around one point, with every keyword
Searches(refresh) ==
  { q \in PlacesQueries :
      /\ q.lat # NotGiven
      /\ q.radius = NotGiven
      /\ q.dateRange = NotGiven
      /\ q.refresh = refresh }

Addresses == { q \in GeocodeQueries : TruthyParam(q.address) }

Calls(out) == out.geocodeCalls + out.nearbyCalls + out.eventsCalls

\* the times of a second request within the TTL of an entry written now
Within(ttl) == {clock, clock + ttl - 1}

\* C3 as stated: with the store connected, two identical requests without
\* refresh, the first missing the cache and the second within the TTL, make
\* exactly one upstream call in total, and the second is served from the
\* cache.
C3_ExactlyOneCall ==
  StoreConnected =>
    /\ \A q \in Searches(NotGiven) : \A up1, up2 \in Upstreams : \A t2 \in Within(CACHE_TTL) :
         LET o1 == places(cache, isRedisConnected, redisUp, q, up1, clock)
             o2 == places(o1.cache, isRedisConnected, redisUp, q, up2, t2)
         IN ~o1.hit => o2.hit /\ Calls(o1) + Calls(o2) = 1
    /\ \A q \in Addresses : \A p1, p2 \in {"ok", "throw"} : \A t2 \in Within(GEOCODE_TTL) :
         LET o1 == geocode(cache, isRedisConnected, redisUp, q, p1, clock)
             o2 == geocode(o1.cache, isRedisConnected, redisUp, q, p2, t2)
         IN ~o1.hit => o2.hit /\ Calls(o1) + Calls(o2) = 1

\* C3 (amended): with the store connected, when a request without refresh
\* misses the cache and is answered 200, an identical request within the
\* TTL is served the same body from the cache without any upstream call.
\* The first request makes one geocoding call, or one nearby search per
\* keyword word longer than two characters (one without keyword, none when
\* every word is that short) and at most one events call; a first request
\* answered 500 stores nothing.
C3_SecondFromCache ==
  StoreConnected =>
    /\ \A q \in Searches(NotGiven) : \A up1 \in Upstreams :
         LET o1 == places(cache, isRedisConnected, redisUp, q, up1, clock)
         IN ~o1.hit =>
              /\ o1.nearbyCalls = IF TruthyParam(q.keyword) THEN Len(SearchWords(q.keyword))
                                  ELSE 1
              /\ o1.eventsCalls <= 1
              /\ o1.eventsCalls = 1 => IsTrue(q.includeEvents)
              /\ o1.status = 500 => o1.cache = cache
              /\ o1.status = 200 =>
                   \A up2 \in {Upstream("ok", "ok"), Upstream("throw", "throw")} :
                   \A t2 \in Within(CACHE_TTL) :
                     LET o2 == places(o1.cache, isRedisConnected, redisUp, q, up2, t2)
                     IN o2.hit /\ Calls(o2) = 0 /\ o2.status = 200 /\ o2.body = o1.body
    /\ \A q \in Addresses : \A p1 \in {"ok", "throw"} :
         LET o1 == geocode(cache, isRedisConnected, redisUp, q, p1, clock)
         IN ~o1.hit =>
              /\ Calls(o1) = 1
              /\ o1.status = 500 => o1.cache = cache
              /\ o1.status = 200 =>
                   \A p2 \in {"ok", "throw"} : \A t2 \in Within(GEOCODE_TTL) :
                     LET o2 == geocode(o1.cache, isRedisConnected, redisUp, q, p2, t2)
                     IN o2.hit /\ Calls(o2) = 0 /\ o2.status = 200 /\ o2.body = o1.body

\* a search that took two nearby searches has been stored and the request
\* after it was served from the cache
C3_Witness ==
  /\ StoreConnected
  /\ lastReq = [route |-> "places", status |-> 200, hit |-> TRUE]
  /\ \E en \in cache : en.value.kind = "places" /\ Len(en.value.results) = 2

\* C4: a well-formed /api/places request with refresh=true makes at least
\* one nearby-search call, whatever the cache holds.
C4_RefreshCallsProvider ==
  \A q \in Searches(Str(<<"true">>)) : \A up \in Upstreams :
    places(cache, isRedisConnected, redisUp, q, up, clock).nearbyCalls >= 1

(***************************************************************************)
(* Properties of admission control (specification SpecLimiter).            *)
(***************************************************************************)
\* C5: for each route class with ceiling N and window W, of the requests a
\* client sends to the class within one window the first N are admitted
\* and every later one, the (N+1)th first, is answered 429; and a request
\* the client sends once the window has elapsed is admitted.
C5_Ceiling ==
  /\ lstatus # 0 =>
       /\ sent <= MaxOf(focus) => lstatus = 200
       /\ sent > MaxOf(focus) => lstatus = 429
  /\ LET after == IF clock >= windowEnd THEN clock ELSE windowEnd
     IN \A t \in {after, after + 1} : Admission(hits, focus, t).status = 200

\* the client's 61st search of the day has been rejected
C5_Witness ==
  /\ focus = "places"
  /\ sent = PLACES_MAX + 1
  /\ lstatus = 429
  /\ clock < windowEnd

(***************************************************************************)
(* Properties of the status a subscription update leaves (specification    *)
(* Spec).                                                                  *)
(***************************************************************************)
\* C11: when customer.subscription.updated is handled for a matched user,
\* the user's subscriptionStatus becomes 'premium' if the provider status is
\* active, 'trial' if trialing, 'free' if canceled or incomplete_expired,
\* and for any other provider status (past_due) it keeps the value it had
\* before the event.
C11_UpdatedStatus ==
  \A x \in SignedInputs :
    LET e == x[1].body
        i == FindByCustomer(users, e.customer)
        out == handleStripeWebhook(users, x[1], x[2], now)
    IN (e.type = "customer.subscription.updated" /\ i # 0 /\ out.resp = 200)
       => LET before == users[DocUsers[i]].subscriptionStatus
              after == out.users[DocUsers[i]].subscriptionStatus
          IN after = CASE e.status = "active" -> "premium"
                       [] e.status = "trialing" -> "trial"
                       [] e.status \in {"canceled", "incomplete_expired"} -> "free"
                       [] OTHER -> before

\* C12: a delivery whose signature verifies is answered 500 only when a
\* call to the store or to the provider failed while it was handled; any
\* other error of a handler (a checkout naming a user id that has no
\* document) is still answered with the acknowledgement (200).
C12_RetryOnlyTransient ==
  \A x \in SignedInputs :
    LET out == handleStripeWebhook(users, x[1], x[2], now)
    IN /\ out.resp \in {200, 500}
       /\ out.resp = 500 => x[2].fault \in {"stripe", "store"}

(***************************************************************************)
(* POST /api/cancel-subscription (src/server.js).  The outside answers     *)
(* with the subscription's cancel_at_period_end as stripe.subscriptions    *)
(* .retrieve reports it, the current_period_end stripe.subscriptions       *)
(* .update returns, and the call that fails, if any.                       *)
(***************************************************************************)
CancelEnv(cancelling, cpe, fault) ==
  [cancel_at_period_end |-> cancelling, current_period_end |-> cpe, fault |-> fault]

CancelFaults == {"none", "get", "stripe", "update"}

\* the document update of cancel-subscription
CancelPatch(cancelAtDate) ==
  [subscriptionWillCancelAt |-> cancelAtDate,
   updatedAt |-> SERVER_TS]

cancelSubscription(us, b, env) ==
  LET h == "cancel-subscription"
      userId == b.userId
      cpe == env.current_period_end
      Answer(u, status, ioRec) == [users |-> u, resp |-> status, io |-> ioRec]
  IN IF userId = NULL
       THEN Answer(us, 400, IOB(h, 0, 0, 0, "userId is required"))
     ELSE IF env.fault = "get"
       THEN Answer(us, 500, IOB(h, 0, 0, 0, "Failed to cancel subscription"))
     ELSE IF userId \notin DocUserSet
       THEN Answer(us, 500, IOB(h, 0, 1, 0, "Failed to cancel subscription"))
     ELSE IF us[userId].stripeSubscriptionId \in {ABSENT, NULL}
       THEN Answer(us, 400, IOB(h, 0, 1, 0, "No active subscription found"))
     ELSE IF env.fault = "stripe"
       THEN Answer(us, 500, IOB(h, 1, 1, 0, "Failed to cancel subscription"))
     ELSE IF env.cancel_at_period_end
       THEN Answer(us, 400, IOB(h, 1, 1, 0, "Subscription is already scheduled to cancel"))
     ELSE IF ~Truthy(cpe)
       THEN Answer(us, 200, IOB(h, 2, 1, 0, "Subscription will cancel at period end"))
     ELSE IF ToISOStringThrows(DateFromSeconds(cpe)) \/ env.fault = "update"
       THEN Answer(us, 500, IOB(h, 2, 1, 0, "Failed to cancel subscription"))
     ELSE Answer(UpdateDoc(us, userId, CancelPatch(ToISOString(DateFromSeconds(cpe)))),
                 200, IOB(h, 2, 1, 1, "Subscription will cancel at period end"))

CancelBodies == { [userId |-> u] : u \in UserIds \cup {NULL} }

CancelEnvs ==
  { CancelEnv(c, cpe, f) : c \in BOOLEAN, cpe \in PeriodEnds, f \in CancelFaults }

\* POST /api/cancel-subscription
CancelSubscription(b, env) ==
  LET out == cancelSubscription(users, b, env)
  IN /\ users' = out.users
     /\ resp' = out.resp
     /\ UNCHANGED <<appleTransactions, now>>

(***************************************************************************)
(* The ledger under both platforms: specification SpecLedger delivers the  *)
(* webhooks of subscription s1 (but its creation) and serves the receipt   *)
(* routes and the cancellation for user u1, in any order, no call failing. *)
(***************************************************************************)
LedgerDeliveries ==
  { x \in DeliveredInputs :
      LET e == x[1].body
      IN /\ x[1] \in SignedDeliveries
         /\ e.sub = "s1"
         /\ e.type # "customer.subscription.created"
         /\ x[2].fault = "none"
         /\ e.type = "checkout.session.completed" => x[2] = Env("trialing", T1, T2, "none")
         /\ e.type = "customer.subscription.updated" =>
              /\ e.status \in {"active", "canceled", "past_due"}
              /\ e.current_period_end = T2
              /\ ~e.cancel_at_period_end
         /\ e.type = "invoice.payment_succeeded" => x[2].current_period_end = T2 }

LedgerValidates ==
  { x \in ValidateRequests :
      /\ x[1].userId = "u1" /\ x[1].transactionId = "t1" /\ x[1].productId = "pro_monthly"
      /\ x[2] = ValidateEnv(FALSE, APPLE_OK, APPLE_OK, "none") }

LedgerRestores ==
  { x \in RestoreRequests :
      x[1].userId = "u1" /\ x[2] = "none" /\ Len(x[1].products.items) = 1 }

LedgerSyncs ==
  { x \in SyncRequests :
      x[1].userId = "u1" /\ x[2] = "none" /\ Len(x[1].subscriptions.items) < 2 }

LedgerExpireds ==
  { x \in ExpiredRequests : x[1].userId = "u1" /\ x[2] = "none" }

LedgerCancels ==
  { x \in CancelBodies \X CancelEnvs :
      x[1].userId = "u1" /\ x[2].fault = "none" /\ x[2].current_period_end = T2 }

InitBoth ==
  /\ InitLedger(NewUserDoc)
  /\ InitOther

NextDelivery == \E x \in LedgerDeliveries : Webhook(x[1], x[2])

NextCancel == \E x \in LedgerCancels : CancelSubscription(x[1], x[2])

NextReceipt ==
  \/ \E x \in LedgerValidates : ValidateReceipt(x[1], x[2])
  \/ \E x \in LedgerRestores : Restore(x[1], x[2])
  \/ \E x \in LedgerSyncs : Sync(x[1], x[2])
  \/ \E x \in LedgerExpireds : Expired(x[1], x[2])

NextLedger ==
  (NextDelivery \/ NextCancel \/ NextReceipt \/ Tick)
    /\ UNCHANGED <<cacheVars, limiterVars, inflight>>

SpecLedger == InitBoth /\ [][NextLedger]_vars

(***************************************************************************)
(* Properties of the user record under both platforms (specification       *)
(* SpecLedger).                                                            *)
(***************************************************************************)
\* the Stripe identifier pair, the Apple identifier pair
StripePair(doc) == <<doc.stripeCustomerId, doc.stripeSubscriptionId>>

ApplePair(doc) == <<doc.appleProductId, doc.appleSubscriptionExpiry>>

\* C13: in every state reached by webhooks and receipt operations, a user
\* whose subscriptionStatus is 'premium' or 'trial' has exactly one platform
\* identifier pair populated, the one of its subscriptionPlatform: the
\* Stripe customer and subscription ids when it is web, the Apple product
\* id and expiry when it is apple.
C13_OnePlatformPair ==
  \A u \in DocUserSet :
    LET doc == users[u]
    IN doc.subscriptionStatus \in {"premium", "trial"} =>
         \/ /\ doc.subscriptionPlatform = "web"
            /\ doc.stripeCustomerId \notin {ABSENT, NULL}
            /\ doc.stripeSubscriptionId \notin {ABSENT, NULL}
            /\ ApplePair(doc) = <<ABSENT, ABSENT_T>>
         \/ /\ doc.subscriptionPlatform = "apple"
            /\ doc.appleProductId \notin {ABSENT, NULL}
            /\ doc.appleSubscriptionExpiry # ABSENT_T
            /\ StripePair(doc) = <<ABSENT, ABSENT>>

\* C14: in every reachable state, a user whose entitlement is free (its
\* subscriptionStatus is 'free' and isPremium is not true: after
\* customer.subscription.deleted, customer.subscription.updated to
\* canceled, an expired sync or apple-subscription-expired) has both
\* identifier pairs cleared: no stripeCustomerId, no stripeSubscriptionId,
\* no appleProductId and no appleSubscriptionExpiry.
C14_FreeIsCleared ==
  \A u \in DocUserSet :
    LET doc == users[u]
    IN (doc.subscriptionStatus = "free" /\ doc.isPremium # "true") =>
         /\ StripePair(doc) = <<ABSENT, ABSENT>>
         /\ ApplePair(doc) = <<ABSENT, ABSENT_T>>

\* the users collection with every updatedAt erased, so that a stamp written
\* by the next operation shows
Unstamped(us) == [u \in DocUserSet |-> [us[u] EXCEPT !.updatedAt = ABSENT_T]]

\* the collections each operation of SpecLedger leaves when it is run on the
\* unstamped collection
LedgerOutcomes ==
  LET us == Unstamped(users)
  IN { handleStripeWebhook(us, x[1], x[2], now).users : x \in LedgerDeliveries }
       \cup { cancelSubscription(us, x[1], x[2]).users : x \in LedgerCancels }
       \cup { validateAppleReceipt(us, appleTransactions, x[1], x[2], now).users :
                x \in LedgerValidates }
       \cup { restoreAppleSubscription(us, appleTransactions, x[1], x[2]).users :
                x \in LedgerRestores }
       \cup { syncAppleSubscription(us, appleTransactions, x[1], x[2], now).users :
                x \in LedgerSyncs }
       \cup { appleSubscriptionExpired(us, appleTransactions, x[1], x[2]).users :
                x \in LedgerExpireds }

\* C15: every operation that changes a field of a user's document stamps
\* updatedAt in the same write: the six webhook handlers, cancel-subscription
\* and the receipt validate, restore, sync and expire operations.
C15_StampsUpdatedAt ==
  \A after \in LedgerOutcomes : \A u \in DocUserSet :
    after[u] # Unstamped(users)[u] => after[u].updatedAt = SERVER_TS

(***************************************************************************)
(* The receipt validation of a deployment with APPLE_SHARED_SECRET set:    *)
(* specification SpecSecret serves well-formed validation requests of both *)
(* users, Apple answering in every way and no store call failing.          *)
(***************************************************************************)
SecretRequests ==
  { x \in ValidateBodies \X ValidateEnvs :
      /\ x[1].receipt # NULL
      /\ x[1].userId \in DocUserSet
      /\ x[1].productId \in ProductIds
      /\ x[1].transactionId # NULL
      /\ x[2].secret
      /\ x[2].fault = "none" }

NextSecretValidate == \E x \in SecretRequests : ValidateReceipt(x[1], x[2])

NextSecret == (NextSecretValidate \/ Tick) /\ UNCHANGED <<cacheVars, limiterVars, inflight>>

SpecSecret == InitBoth /\ [][NextSecret]_vars

\* Apple's answers under which the verification of a receipt fails: the
\* service is unreachable, or the status it ends with (the sandbox's when
\* production answered 21007) is not 0
VerificationFails(env) ==
  LET final == IF env.prod = APPLE_SANDBOX_RECEIPT THEN env.sandbox ELSE env.prod
  IN env.prod = APPLE_UNREACHABLE \/ final # APPLE_OK

\* C16: with a shared secret configured, a POST /validate-apple-receipt
\* whose receipt verification fails is answered 400 and leaves the user
\* documents and the processed-transaction records unchanged.
C16_FailedVerification ==
  \A x \in ValidateBodies \X ValidateEnvs :
    LET out == validateAppleReceipt(users, appleTransactions, x[1], x[2], now)
    IN (/\ x[1].receipt # NULL /\ x[1].userId # NULL
        /\ x[2].secret
        /\ VerificationFails(x[2]))
       => /\ out.resp = 400
          /\ out.users = users
          /\ out.txns = appleTransactions
          /\ out.io.writes = 0

\* a receipt has been refused after a purchase of the same user was recorded
C16_Witness ==
  /\ resp = 400
  /\ appleTransactions["t1"].exists
  /\ appleTransactions["t1"].userId = "u1"
  /\ users["u1"].isPremium = "true"

\* C17: the processed-transaction check comes before the verification of
\* the receipt: a request whose transactionId already has a record is
\* answered with success (alreadyProcessed) without a call to the
\* receipt-validation service, whether or not its receipt would verify, and
\* without a change to the user documents.
C17_DedupBeforeVerification ==
  \A x \in SecretRequests :
    LET out == validateAppleReceipt(users, appleTransactions, x[1], x[2], now)
    IN appleTransactions[x[1].transactionId].exists
       => /\ out.resp = 200
          /\ out.io.body = "alreadyProcessed"
          /\ out.io.retrieves = 0
          /\ out.users = users

(***************************************************************************)
(* GET /api/photo (src/server.js): the URL of the photo is cached, the     *)
(* image is fetched from it on every request.                              *)
(***************************************************************************)
PHOTO_TTL == 7 * 24 * 60 * 60

PhotoKey(photoreference) == <<"photo", ":">> \o photoreference.text

\* what the photo route did: as Served, with the fetches of the image
PhotoServed(c, status, body, hit, fetches, reads) ==
  [cache |-> c, status |-> status, body |-> body, hit |-> hit,
   fetches |-> fetches, reads |-> reads]

\* app.get('/api/photo'); provider is "ok" or "throw"
photo(c, flag, up, q, provider, t) ==
  IF ~TruthyParam(q.photoreference)
    THEN PhotoServed(c, 400, NoData, FALSE, 0, 0)
  ELSE LET cacheKey == PhotoKey(q.photoreference)
           cachedPhoto == getCachedData(c, flag, up, cacheKey, t)
           photoUrl == [kind |-> "photo", url |-> q.photoreference.text]
           image(url) == [kind |-> "image", of |-> url]
       IN IF cachedPhoto.data # NoData
            THEN IF provider = "throw"
                   THEN PhotoServed(c, 500, NoData, TRUE, 1, cachedPhoto.reads)
                   ELSE PhotoServed(c, 200, image(cachedPhoto.data.url), TRUE, 1,
                                    cachedPhoto.reads)
          ELSE LET c2 == setCachedData(c, flag, up, cacheKey, photoUrl, PHOTO_TTL, t)
               IN IF provider = "throw"
                    THEN PhotoServed(c2, 500, NoData, FALSE, 1, cachedPhoto.reads)
                    ELSE PhotoServed(c2, 200, image(photoUrl.url), FALSE, 1,
                                     cachedPhoto.reads)

PhotoQueries == { [photoreference |-> r] : r \in {NotGiven, Str(<<>>), Str(<<"ref1">>)} }

\* GET /api/photo
Photo(q, provider) ==
  LET out == photo(cache, isRedisConnected, redisUp, q, provider, clock)
  IN /\ cache' = out.cache
     /\ lastReq' = LastReq("photo", out)
     /\ UNCHANGED <<isRedisConnected, redisUp, clock, advances, refreshes>>

(***************************************************************************)
(* The cached routes while the store comes and goes: specification         *)
(* SpecOutage serves the three cached routes between the events of the     *)
(* Redis client, the clock standing still.                                 *)
(***************************************************************************)
PhotoRequests == { x \in PhotoQueries \X {"ok", "throw"} : x[1].photoreference # Str(<<>>) }

NextPhoto == \E x \in PhotoRequests : Photo(x[1], x[2])

NextOutage ==
  (NextGeocode \/ NextPlaces \/ NextPhoto \/ RedisReady \/ RedisLost \/ RedisError)
    /\ UNCHANGED <<ledgerVars, limiterVars>>

SpecOutage == Init /\ [][NextOutage]_vars

\* searches with every keyword and every use of events and refresh
OutageSearches == { q \in PlacesQueries : q.radius = NotGiven /\ q.dateRange = NotGiven }

\* two outcomes of a route that answer alike and made the same upstream calls
SameAnswer(out, miss) ==
  /\ out.status = miss.status
  /\ out.body = miss.body
  /\ out.hit = miss.hit

\* while the store is unavailable each cached route answers as it does on a
\* miss against an empty store that is connected, leaves the store alone,
\* and fails only when its provider fails
OutageIsMiss ==
  ~StoreConnected =>
    /\ \A q \in GeocodeQueries : \A p \in {"ok", "throw"} :
         LET out == geocode(cache, isRedisConnected, redisUp, q, p, clock)
             miss == geocode({}, TRUE, TRUE, q, p, clock)
         IN /\ SameAnswer(out, miss) /\ Calls(out) = Calls(miss)
            /\ ~out.hit /\ out.cache = cache
            /\ out.status = 500 => p = "throw"
            /\ (TruthyParam(q.address) /\ p = "ok") => out.status = 200 /\ Calls(out) = 1
    /\ \A q \in OutageSearches : \A up \in Upstreams :
         LET out == places(cache, isRedisConnected, redisUp, q, up, clock)
             miss == places({}, TRUE, TRUE, q, up, clock)
         IN /\ SameAnswer(out, miss) /\ Calls(out) = Calls(miss)
            /\ ~out.hit /\ out.cache = cache
            /\ out.status = 500 => up.nearby = "throw"
            /\ (TruthyParam(q.lat) /\ up.nearby = "ok") => out.status = 200
    /\ \A q \in PhotoQueries : \A p \in {"ok", "throw"} :
         LET out == photo(cache, isRedisConnected, redisUp, q, p, clock)
             miss == photo({}, TRUE, TRUE, q, p, clock)
         IN /\ SameAnswer(out, miss) /\ out.fetches = miss.fetches
            /\ ~out.hit /\ out.cache = cache
            /\ out.status = 500 => p = "throw"
            /\ (TruthyParam(q.photoreference) /\ p = "ok") => out.status = 200 /\ out.fetches = 1

\* isRedisConnected becomes true only in the step of the 'ready' event, and
\* a response comes from the store, or an entry goes into it, only while it
\* is connected
ResumesOnReady ==
  /\ (~isRedisConnected /\ isRedisConnected') =>
       (~redisUp /\ redisUp' /\ UNCHANGED <<cache, lastReq>>)
  /\ ((lastReq' # lastReq /\ lastReq'.hit) \/ ~(cache' \subseteq cache)) => StoreConnected

\* C18: when the cache store is unavailable (never connected,
\* isRedisConnected reset by an 'error' event, or get/set throwing), each
\* cached route (geocode, places, photo) behaves as on a cache miss: it
\* calls the provider and returns the provider's result, and no failure of
\* the cache becomes an error response; caching resumes only after a
\* 'ready' event.
C18_OutageTransparent == []OutageIsMiss /\ [][ResumesOnReady]_vars

\* a photo has been served while the store, holding a geocoding entry, does
\* not answer: its URL was not stored
C18_Witness ==
  /\ isRedisConnected /\ ~redisUp
  /\ lastReq = [route |-> "photo", status |-> 200, hit |-> FALSE]
  /\ \E en \in cache : en.value.kind = "geocode"
  /\ ~\E en \in cache : en.value.kind = "photo"

(***************************************************************************)
(* Routes behind their limiters.  express-rate-limit answers a request     *)
(* over the ceiling itself and does not call next(): the route's handler   *)
(* runs only for a request every limiter of its chain has passed.          *)
(***************************************************************************)
\* the limiters calling next() for a request over the ceiling as well
Limited_callsNext(h, class, t, rejected, served) ==
  [hits |-> Admission(h, class, t).hits, status |-> Admission(h, class, t).status,
   out |-> served]

\* a request of a route class: the counters afterwards, what admission said
\* and the outcome, which is the handler's only when the request is admitted
Limited(h, class, t, rejected, served) ==
  LET adm == Admission(h, class, t)
  IN [hits |-> adm.hits, status |-> adm.status,
      out |-> IF adm.status = 429 THEN rejected ELSE served]

\* the 429 a limiter sends
TooMany(c) == Served(c, 429, NoData, FALSE, 0, 0, 0, 0)

\* app.get('/api/geocode', geocodeLimiter, ...)
limitedGeocode(h, c, flag, up, q, provider, t) ==
  Limited(h, "geocode", t, TooMany(c), geocode(c, flag, up, q, provider, t))

\* app.get('/api/places', placesLimiter, ...)
limitedPlaces(h, c, flag, redis, q, up, t) ==
  Limited(h, "places", t, TooMany(c), places(c, flag, redis, q, up, t))

\* app.get('/api/photo', photoLimiter, ...)
limitedPhoto(h, c, flag, up, q, provider, t) ==
  Limited(h, "photo", t, PhotoServed(c, 429, NoData, FALSE, 0, 0),
          photo(c, flag, up, q, provider, t))

\* app.use('/api', appleIAPRoutes) after app.use('/api/', generalLimiter)
limitedValidate(h, us, txns, b, env, t) ==
  Limited(h, "general", t,
          AppleOutcome(us, txns, 429, IOB("generalLimiter", 0, 0, 0, "Too many requests")),
          validateAppleReceipt(us, txns, b, env, t))

(***************************************************************************)
(* Specification SpecAdmitted: one client sends requests of one route      *)
(* class until the limiter rejects them: searches for "pizza bar",         *)
(* geocodings of Paris, photos, or validations of a purchase of u1 (a      *)
(* route under the general limiter only).                                  *)
(***************************************************************************)
AdmittedSearch ==
  PlacesQuery(Str(<<"40">>), Str(<<"-74">>), NotGiven, Str(<<"pizza", " ", "bar">>),
              NotGiven, NotGiven, NotGiven, NotGiven)

AdmittedAddress == [address |-> Str(<<"Paris">>)]

AdmittedPhoto == [photoreference |-> Str(<<"ref1">>)]

AdmittedPurchase == ValidateBody("receipt", "u1", "pro_monthly", "t1")

AdmittedEnv == ValidateEnv(TRUE, APPLE_OK, APPLE_OK, "none")

InitAdmitted ==
  /\ InitLedger(NewUserDoc)
  /\ InitCache
  /\ InitLimiter({"places", "geocode", "photo", "general"})

\* the bookkeeping of the client's requests, as in Request
Count(r) ==
  LET fresh == clock >= windowEnd
  IN /\ fresh \/ sent < MaxOf(focus) + MaxExcess
     /\ hits' = r.hits
     /\ lstatus' = r.status
     /\ sent' = IF fresh THEN 1 ELSE sent + 1
     /\ windowEnd' = IF fresh THEN clock + WindowOf(focus) ELSE windowEnd
     /\ UNCHANGED <<focus, clock, advances, isRedisConnected, redisUp, refreshes, now,
                    inflight>>

CachedRequest(route, r) ==
  /\ Count(r)
  /\ cache' = r.out.cache
  /\ lastReq' = IF r.status = 429 THEN lastReq ELSE LastReq(route, r.out)
  /\ UNCHANGED <<users, appleTransactions, resp>>

SearchRequest ==
  /\ focus = "places"
  /\ CachedRequest("places",
                   limitedPlaces(hits, cache, isRedisConnected, redisUp, AdmittedSearch,
                                 Upstream("ok", "ok"), clock))

GeocodeRequest ==
  /\ focus = "geocode"
  /\ \E p \in {"ok", "throw"} :
       CachedRequest("geocode",
                     limitedGeocode(hits, cache, isRedisConnected, redisUp, AdmittedAddress,
                                    p, clock))

PhotoRequest ==
  /\ focus = "photo"
  /\ CachedRequest("photo",
                   limitedPhoto(hits, cache, isRedisConnected, redisUp, AdmittedPhoto,
                                "ok", clock))

PurchaseRequest ==
  /\ focus = "general"
  /\ LET r == limitedValidate(hits, users, appleTransactions, AdmittedPurchase,
                              AdmittedEnv, now)
     IN /\ Count(r)
        /\ users' = r.out.users
        /\ appleTransactions' = r.out.txns
        /\ resp' = r.out.resp
        /\ UNCHANGED <<cache, lastReq>>

StoreEvent ==
  (RedisReady \/ RedisLost \/ RedisError)
    /\ UNCHANGED <<ledgerVars, limiterVars>>

NextAdmitted ==
  SearchRequest \/ GeocodeRequest \/ PhotoRequest \/ PurchaseRequest \/ StoreEvent

SpecAdmitted == InitAdmitted /\ [][NextAdmitted]_vars

\* a rejected request of a cached route made no cache access and no upstream
\* call
NoCacheWork(r, fetches) ==
  /\ r.out.status = 429
  /\ r.out.cache = cache
  /\ r.out.reads = 0
  /\ ~r.out.hit
  /\ fetches = 0

\* whatever the request, when a limiter of its chain rejects it the answer
\* is 429 and nothing downstream has run
RejectedDoesNothing ==
  /\ \A q \in GeocodeQueries : \A p \in {"ok", "throw"} :
       LET r == limitedGeocode(hits, cache, isRedisConnected, redisUp, q, p, clock)
       IN IF Admission(hits, "geocode", clock).status = 429
            THEN NoCacheWork(r, Calls(r.out))
            ELSE r.out = geocode(cache, isRedisConnected, redisUp, q, p, clock)
  /\ \A q \in OutageSearches : \A up \in {Upstream("ok", "ok"), Upstream("throw", "throw")} :
     LET r == limitedPlaces(hits, cache, isRedisConnected, redisUp, q, up, clock)
     IN IF Admission(hits, "places", clock).status = 429
          THEN NoCacheWork(r, Calls(r.out))
          ELSE r.out = places(cache, isRedisConnected, redisUp, q, up, clock)
  /\ \A q \in PhotoQueries : \A p \in {"ok", "throw"} :
     LET r == limitedPhoto(hits, cache, isRedisConnected, redisUp, q, p, clock)
     IN IF Admission(hits, "photo", clock).status = 429
          THEN NoCacheWork(r, r.out.fetches)
          ELSE r.out = photo(cache, isRedisConnected, redisUp, q, p, clock)
  /\ \A x \in SecretRequests \cup {<<AdmittedPurchase, AdmittedEnv>>} :
     LET r == limitedValidate(hits, users, appleTransactions, x[1], x[2], now)
     IN IF Admission(hits, "general", clock).status = 429
          THEN /\ r.out.resp = 429
               /\ r.out.users = users
               /\ r.out.txns = appleTransactions
               /\ r.out.io.retrieves = 0 /\ r.out.io.reads = 0 /\ r.out.io.writes = 0
          ELSE r.out = validateAppleReceipt(users, appleTransactions, x[1], x[2], now)

\* the step of a rejected request counts it and changes nothing else: the
\* request leaves nothing behind to be served later
RejectedIsFinal ==
  (lstatus' = 429 /\ hits' # hits) =>
    UNCHANGED <<cache, lastReq, users, appleTransactions, isRedisConnected, redisUp>>

\* C19: a request rejected by a rate limiter is answered at once with 429
\* and causes no downstream work: no cache read or write, no call to a
\* provider, no read or write of a user record; it is not queued or retried.
C19_RejectedNoWork == []RejectedDoesNothing /\ [][RejectedIsFinal]_vars

\* the client's 61st search has been rejected while the store holds the
\* result of its earlier searches
C19_Witness ==
  /\ focus = "places"
  /\ sent = PLACES_MAX + 1
  /\ lstatus = 429
  /\ lastReq = [route |-> "places", status |-> 200, hit |-> TRUE]
  /\ \E en \in cache : en.value.kind = "places"

(***************************************************************************)
(* POST /validate-apple-receipt step by step (src/routes/appleIAP.js).     *)
(* The handler gives up control at each await: the verification, the get   *)
(* of the processed-transaction record, its set and the update of the user *)
(* document are separate calls, and the calls of two requests in flight    *)
(* reach the store in any order.  inflight maps a request in flight to     *)
(*   pc       the call it makes next, "done" once it has answered          *)
(*   exists   what existingTransaction.exists was when it looked           *)
(*   stored   whether it has written the processed-transaction record      *)
(*   updated  whether it has updated the user document                     *)
(*   status   the status it answered with                                  *)
(* SpecRace has a client send the same purchase twice.                     *)
(***************************************************************************)
RequestIds == {"r1", "r2"}

RaceBody == ValidateBody("receipt", "u1", "pro_monthly", "t1")

InFlight(pc, exists, stored, updated, status) ==
  [pc |-> pc, exists |-> exists, stored |-> stored, updated |-> updated, status |-> status]

Move(r, next) ==
  /\ inflight' = [inflight EXCEPT ![r] = next]
  /\ resp' = IF next.pc = "done" THEN next.status ELSE resp

\* the request arrives and, its body being complete, calls
\* verifyReceiptWithApple
Arrive(r) ==
  /\ r \notin DOMAIN inflight
  /\ inflight' = inflight @@ (r :> InFlight("verify", FALSE, FALSE, FALSE, 0))
  /\ UNCHANGED <<users, appleTransactions, now, resp>>

\* Apple answers: the request is refused, or goes on to look up the record
Verified(r, answer) ==
  /\ r \in DOMAIN inflight /\ inflight[r].pc = "verify"
  /\ Move(r, IF answer # APPLE_OK
               THEN [inflight[r] EXCEPT !.pc = "done", !.status = 400]
               ELSE [inflight[r] EXCEPT !.pc = "get"])
  /\ UNCHANGED <<users, appleTransactions, now>>

\* appleTransactions.doc(transactionId).get() is answered: a request that
\* finds the record answers alreadyProcessed, another goes on to set it
GetTransaction(r) ==
  /\ r \in DOMAIN inflight /\ inflight[r].pc = "get"
  /\ LET exists == appleTransactions[RaceBody.transactionId].exists
     IN Move(r, IF exists
                  THEN [inflight[r] EXCEPT !.pc = "done", !.exists = TRUE, !.status = 200]
                  ELSE [inflight[r] EXCEPT !.pc = "set"])
  /\ UNCHANGED <<users, appleTransactions, now>>

\* appleTransactions.doc(transactionId).set({...}) reaches the store
SetTransaction(r) ==
  /\ r \in DOMAIN inflight /\ inflight[r].pc = "set"
  /\ appleTransactions' =
       [appleTransactions EXCEPT ![RaceBody.transactionId] =
          [exists |-> TRUE, userId |-> RaceBody.userId, productId |-> RaceBody.productId]]
  /\ Move(r, [inflight[r] EXCEPT !.pc = "update", !.stored = TRUE])
  /\ UNCHANGED <<users, now>>

\* users.doc(userId).update({...}) reaches the store and the request answers
UpdateUser(r) ==
  /\ r \in DOMAIN inflight /\ inflight[r].pc = "update"
  /\ users' = UpdateDoc(users, RaceBody.userId, ValidatePatch(RaceBody.productId, now))
  /\ Move(r, [inflight[r] EXCEPT !.pc = "done", !.updated = TRUE, !.status = 200])
  /\ UNCHANGED <<appleTransactions, now>>

RaceStep(r) ==
  \/ Arrive(r)
  \/ \E answer \in {APPLE_OK, APPLE_BAD_RECEIPT} : Verified(r, answer)
  \/ GetTransaction(r)
  \/ SetTransaction(r)
  \/ UpdateUser(r)

NextRace ==
  \/ (\E r \in RequestIds : RaceStep(r)) /\ UNCHANGED <<cacheVars, limiterVars>>
  \/ Tick /\ UNCHANGED <<cacheVars, limiterVars, inflight>>

SpecRace == InitBoth /\ [][NextRace]_vars

\* the requests that went past the existence check, wrote the record,
\* updated the user
Passed == { r \in DOMAIN inflight : inflight[r].pc \in {"set", "update"} \/ inflight[r].stored }

Stored == { r \in DOMAIN inflight : inflight[r].stored }

Updated == { r \in DOMAIN inflight : inflight[r].updated }

\* C20: of two POST /validate-apple-receipt requests with the same
\* transactionId handled concurrently, in every interleaving of their reads
\* and writes of the store at most one writes the processed-transaction
\* record and at most one updates the user document: they cannot both pass
\* the existence check.
C20_OneWinner ==
  /\ Cardinality(Passed) <= 1
  /\ Cardinality(Stored) <= 1
  /\ Cardinality(Updated) <= 1

(***************************************************************************)
(* Two writers of one user document, step by step: handlePaymentFailed     *)
(* (src/server.js) for an invoice of subscription s2 and                   *)
(* /sync-apple-subscription (src/routes/appleIAP.js) for the same user,    *)
(* u2.  Each reads the store, decides, and sends its update; the reads and *)
(* updates of the two reach the store in any order.  inflight maps a       *)
(* writer to                                                               *)
(*   pc      "read", "write" or "done"                                     *)
(*   list    the subscriptions the sync reports                            *)
(*   target  the document it updates                                       *)
(*   patch   the update it sends, <<>> while it has none                   *)
(*   wrote   whether its update has reached the store                      *)
(***************************************************************************)
WriterIds == {"paymentFailed", "sync"}

WriterInvoice == Event("invoice.payment_failed", NULL, NULL, "s2", NULL, NULL_T, NULL_T, FALSE)

WriterLists == {<<Item("pro_monthly", TRUE)>>, <<Item("pro_yearly", TRUE)>>}

Writer(pc, list, target, patch, wrote) ==
  [pc |-> pc, list |-> list, target |-> target, patch |-> patch, wrote |-> wrote]

\* the invoice.payment_failed event arrives; the sync request arrives
ArriveWriter(r, list) ==
  /\ r \notin DOMAIN inflight
  /\ inflight' = inflight @@ (r :> Writer("read", list, NULL, <<>>, FALSE))
  /\ UNCHANGED <<users, appleTransactions, now, resp>>

\* handlePaymentFailed: the query by stripeCustomerId is answered
QueryByCustomer ==
  LET r == "paymentFailed"
      i == FindByCustomer(users, CustomerOf(WriterInvoice.sub))
  IN /\ r \in DOMAIN inflight /\ inflight[r].pc = "read"
     /\ inflight' =
          [inflight EXCEPT ![r] =
             IF i = 0 THEN [@ EXCEPT !.pc = "done"]
             ELSE [@ EXCEPT !.pc = "write", !.target = DocUsers[i],
                            !.patch = PaymentFailedPatch(now)]]
     /\ UNCHANGED <<users, appleTransactions, now, resp>>

\* /sync-apple-subscription: the get of the user document is answered
GetUserDoc ==
  LET r == "sync"
      userData == users["u2"]
      bestSub == BestProduct(inflight[r].list)
  IN /\ r \in DOMAIN inflight /\ inflight[r].pc = "read"
     /\ inflight' =
          [inflight EXCEPT ![r] =
             IF userData.isPremium # "true" \/ userData.appleProductId # bestSub.id
               THEN [@ EXCEPT !.pc = "write", !.target = "u2",
                              !.patch = SyncUpgradePatch(bestSub)]
               ELSE [@ EXCEPT !.pc = "done"]]
     /\ resp' = IF inflight'[r].pc = "done" THEN 200 ELSE resp
     /\ UNCHANGED <<users, appleTransactions, now>>

\* users.doc(target).update(patch) of a writer reaches the store
WriteUserDoc(r) ==
  /\ r \in DOMAIN inflight /\ inflight[r].pc = "write"
  /\ users' = UpdateDoc(users, inflight[r].target, inflight[r].patch)
  /\ inflight' = [inflight EXCEPT ![r] = [@ EXCEPT !.pc = "done", !.wrote = TRUE]]
  /\ resp' = 200
  /\ UNCHANGED <<appleTransactions, now>>

NextWriters ==
  \/ (\/ ArriveWriter("paymentFailed", <<>>)
      \/ \E l \in WriterLists : ArriveWriter("sync", l)
      \/ QueryByCustomer
      \/ GetUserDoc
      \/ \E r \in WriterIds : WriteUserDoc(r))
       /\ UNCHANGED <<cacheVars, limiterVars>>
  \/ Tick /\ UNCHANGED <<cacheVars, limiterVars, inflight>>

SpecWriters == InitApple /\ [][NextWriters]_vars

\* the writers whose update has reached the store
Wrote == { r \in DOMAIN inflight : inflight[r].wrote }

\* the updates the handlers send
Patches ==
  { PaymentFailedPatch(now), SyncExpiredPatch, SubscriptionDeletedPatch, CancelPatch(T2 * 1000) }
    \cup { SyncUpgradePatch(Item(p, TRUE)) : p \in ProductIds }
    \cup { RestorePatch(Item(p, TRUE)) : p \in ProductIds }
    \cup { ValidatePatch(p, now) : p \in ProductIds }
    \cup { ExpiredPatch(p) : p \in ProductIds }

\* C21: two mutations of one user that touch disjoint field sets
\* (handlePaymentFailed writing paymentFailed, paymentFailedAt and updatedAt
\* while sync-apple-subscription writes isPremium, subscriptionType,
\* subscriptionPlatform, appleProductId) commute: in every interleaving the
\* document ends with the field values of both writers, and a write resets
\* no field it does not name.
C21_DisjointWritesCommute ==
  /\ \A r \in Wrote : \A f \in DOMAIN inflight[r].patch :
       users["u2"][f] = inflight[r].patch[f]
  /\ \A f \in Fields \ UNION { DOMAIN inflight[r].patch : r \in Wrote } :
       users["u2"][f] = WebUserDoc[f]
  /\ users["u1"] = NewUserDoc
  /\ \A p1, p2 \in Patches : \A u \in DocUserSet :
       DOMAIN p1 \cap DOMAIN p2 = {} =>
         LET both == ApplyPatch(ApplyPatch(users[u], p1), p2)
         IN /\ both = ApplyPatch(ApplyPatch(users[u], p2), p1)
            /\ \A f \in DOMAIN p1 : both[f] = ApplyPatch(users[u], p1)[f]
            /\ \A f \in DOMAIN p2 : both[f] = ApplyPatch(users[u], p2)[f]
            /\ \A f \in Fields \ (DOMAIN p1 \cup DOMAIN p2) : both[f] = users[u][f]

\* the failed payment and the sync of a yearly subscription have both been
\* written to the document of the user in trial, the payment's some time ago
C21_Witness ==
  /\ Wrote = WriterIds
  /\ inflight["paymentFailed"].patch.paymentFailedAt < now
  /\ users["u2"].paymentFailed = "true"
  /\ users["u2"].appleProductId = "pro_yearly"
  /\ users["u2"].subscriptionStatus = "trial"

(***************************************************************************)
(* Self-correction after a dropped customer.subscription.created           *)
(* (specification Spec).                                                   *)
(***************************************************************************)
\* the sessions of users with a document
UserSessions == { se \in Sessions : se.cref \in DocUserSet }

\* the events of a subscription that follow its checkout: an update or a
\* paid invoice; with the answer of the outside and the status they carry
\* ("same" for past_due, where the status is whatever the handler gives it
\* when no event was dropped)
LaterEvents(se) ==
  { <<Event("customer.subscription.updated", NULL, se.customer, se.sub, st[1], NULL_T, T2, c),
      Env(NULL, NULL_T, NULL_T, "none"), st[2]>> :
      st \in {<<"active", "premium">>, <<"trialing", "trial">>, <<"canceled", "free">>,
              <<"incomplete_expired", "free">>, <<"past_due", "same">>},
      c \in BOOLEAN }
    \cup { <<Event("invoice.payment_succeeded", NULL, NULL, se.sub, NULL, NULL_T, NULL_T, FALSE),
             Env("active", NULL_T, T2, "none"), "premium">> }

SignedDelivery(e) == Delivery(e, Sign(WebhookSecret, e))

\* the users collection after the deliveries of a sequence of <<event, env>>
RECURSIVE Deliver(_, _, _)
Deliver(us, seq, t) ==
  IF seq = <<>> THEN us
  ELSE Deliver(handleStripeWebhook(us, SignedDelivery(seq[1][1]), seq[1][2], t).users,
               Tail(seq), t)

\* C22: when customer.subscription.created of a subscription is processed
\* before checkout.session.completed has written the customer id, it is
\* dropped; once the checkout has been processed, a later
\* customer.subscription.updated or invoice.payment_succeeded of the
\* subscription leaves the user with the subscriptionStatus and the
\* currentPeriodEnd of that subscription, the same as when the events come
\* in order.
C22_SelfCorrects ==
  \A se \in UserSessions :
    FindByCustomer(users, se.customer) = 0 =>
      \A st \in {"trialing", "active"} : \A later \in LaterEvents(se) :
      \A env \in { x \in EnvsFor(CHOOSE e \in CheckoutEvents : TRUE) : x.fault = "none" } :
        LET created == <<Event("customer.subscription.created", NULL, se.customer, se.sub,
                               st, T1, T2, FALSE), NoEnv>>
            checkout == <<Event("checkout.session.completed", se.cref, se.customer, se.sub,
                                NULL, NULL_T, NULL_T, FALSE), env>>
            event == <<later[1], later[2]>>
            dropped == handleStripeWebhook(users, SignedDelivery(created[1]), NoEnv, now)
            raced == Deliver(users, <<created, checkout, event>>, now)[se.cref]
            ordered == Deliver(users, <<checkout, created, event>>, now)[se.cref]
        IN /\ dropped.resp = 200 /\ dropped.users = users
           /\ raced.stripeCustomerId = se.customer
           /\ raced.stripeSubscriptionId = se.sub
           /\ raced.subscriptionStatus = ordered.subscriptionStatus
           /\ later[3] # "same" => raced.subscriptionStatus = later[3]
           /\ raced.currentPeriodEnd = T2 * 1000
           /\ raced.currentPeriodEnd = ordered.currentPeriodEnd

\* u1, who checked out into a trial, is premium after a later event of the
\* subscription
C22_Witness ==
  /\ resp = 200
  /\ users["u1"].stripeCustomerId = "c1"
  /\ users["u1"].stripeSubscriptionId = "s1"
  /\ users["u1"].trialEndsAt = T1 * 1000
  /\ users["u1"].subscriptionStatus = "premium"
  /\ users["u1"].currentPeriodEnd = T2 * 1000

(***************************************************************************)
(* Dropped events.                                                         *)
(***************************************************************************)
SubscriptionTypes ==
  {"customer.subscription.created", "customer.subscription.updated",
   "customer.subscription.deleted"}

InvoiceTypes == {"invoice.payment_succeeded", "invoice.payment_failed"}

\* the early returns of the handlers and the default case of the switch: an
\* event of a type without a case, a checkout session without
\* client_reference_id, a subscription event or an invoice whose customer no
\* user carries (the query, and for an invoice the retrieval of the
\* subscription, having answered), an invoice without a subscription
Dropped(us, e, env) ==
  \/ e.type \notin HandledTypes
  \/ e.type = "checkout.session.completed" /\ e.cref = NULL
  \/ e.type \in SubscriptionTypes /\ env.fault = "none" /\ FindByCustomer(us, e.customer) = 0
  \/ e.type \in InvoiceTypes /\ e.sub = NULL
  \/ e.type \in InvoiceTypes /\ e.sub # NULL /\ env.fault = "none"
       /\ FindByCustomer(us, CustomerOf(e.sub)) = 0

\* C23: every dropped webhook event (an unknown type, a
\* checkout.session.completed without client_reference_id, a subscription or
\* invoice event whose customer id matches no user, an invoice without a
\* subscription) is answered 200 and leaves all user records unchanged.
C23_DroppedAcknowledged ==
  \A x \in SignedInputs :
    Dropped(users, x[1].body, x[2]) =>
      LET out == handleStripeWebhook(users, x[1], x[2], now)
      IN out.resp = 200 /\ out.users = users /\ out.io.writes = 0

\* u1 has checked out, so the lookup by customer finds somebody, and events
\* of each dropped kind are acknowledged in this state: an update of the
\* subscription of a customer nobody carries, an invoice of it, a checkout
\* without client_reference_id, an event of another type
C23_Witness ==
  /\ resp = 200
  /\ users["u1"].stripeCustomerId = "c1"
  /\ \A ty \in {"customer.subscription.updated", "invoice.payment_failed",
                "checkout.session.completed", "customer.created"} :
       \E x \in SignedInputs :
         /\ x[1].body.type = ty
         /\ Dropped(users, x[1].body, x[2])
         /\ handleStripeWebhook(users, x[1], x[2], now).resp = 200

(***************************************************************************)
(* The calls of a receipt verification.                                    *)
(***************************************************************************)
\* C24: verifyReceiptWithApple calls the production endpoint first and makes
\* at most one further call, to the sandbox endpoint, exactly when
\* production answers status 21007; what the sandbox answers is returned as
\* it is, a 21007 included; so a verification makes at most two calls and
\* ends.
C24_AtMostTwoCalls ==
  \A x \in SecretRequests :
    LET env == x[2]
        v == verifyReceiptWithApple(env.prod, env.sandbox)
        out == validateAppleReceipt(users, appleTransactions, x[1], env, now)
    IN /\ v.endpoints[1] = PRODUCTION[1]
       /\ v.calls = Len(v.endpoints)
       /\ v.calls \in {1, 2}
       /\ v.calls = 2 <=> env.prod = APPLE_SANDBOX_RECEIPT
       /\ v.calls = 2 => v.endpoints[2] = SANDBOX[1] /\ v.status = env.sandbox
       /\ v.calls = 1 => v.status = env.prod
       /\ out.io.retrieves = v.calls

\* a receipt has been refused while no purchase was recorded, and among the
\* requests served in this state is one whose receipt production answers
\* with 21007 and the sandbox with 21007 again: it is refused after two calls
C24_Witness ==
  /\ resp = 400
  /\ \A t \in TransactionIds : ~appleTransactions[t].exists
  /\ \E x \in SecretRequests :
       /\ x[2].prod = APPLE_SANDBOX_RECEIPT
       /\ x[2].sandbox = APPLE_SANDBOX_RECEIPT
       /\ validateAppleReceipt(users, appleTransactions, x[1], x[2], now).io.retrieves = 2
       /\ validateAppleReceipt(users, appleTransactions, x[1], x[2], now).resp = 400

(***************************************************************************)
(* Restore and sync (specification SpecApple).                             *)
(***************************************************************************)
\* the least of a non-empty set of positions
First(positions) == CHOOSE i \in positions : \A j \in positions : i <= j

\* the id of the first owned product whose id contains 'yearly', else of the
\* first owned product; NULL when no product is owned
RestoredProductId(items) ==
  LET owned == { i \in 1..Len(items) : items[i].owned }
      yearly == { i \in owned : IncludesYearly(items[i].id) }
  IN IF owned = {} THEN NULL
     ELSE IF yearly # {} THEN items[First(yearly)].id
     ELSE items[First(owned)].id

\* C25: POST /restore-apple-subscription looks only at the products with
\* owned = true; it picks the first owned product whose id contains
\* 'yearly', otherwise the first owned product, and makes the user premium
\* on platform apple with that product id and the subscriptionType of it;
\* when no product is owned it changes nothing and answers success = false.
C25_RestorePicksOwned ==
  \A b \in RestoreBodies :
    (b.userId \in DocUserSet /\ b.products.given) =>
      LET out == restoreAppleSubscription(users, appleTransactions, b, "none")
          id == RestoredProductId(b.products.items)
          doc == out.users[b.userId]
      IN IF id = NULL
           THEN /\ out.resp = 200
                /\ out.io.body = "success:false"
                /\ out.io.writes = 0
                /\ out.users = users
                /\ out.txns = appleTransactions
           ELSE /\ out.resp = 200
                /\ out.io.body = "restored"
                /\ doc.isPremium = "true"
                /\ doc.subscriptionPlatform = "apple"
                /\ doc.appleProductId = id
                /\ doc.subscriptionType = IF IncludesYearly(id) THEN "yearly" ELSE "monthly"
                /\ \A u \in DocUserSet \ {b.userId} : out.users[u] = users[u]

\* u1, who never validated a receipt, has restored a purchase and is premium
\* with the yearly product
C25_Witness ==
  /\ resp = 200
  /\ users["u1"].appleSubscriptionDate = Absent("appleSubscriptionDate")
  /\ users["u1"].appleSubscriptionRestored = SERVER_TS
  /\ users["u1"].appleProductId = "pro_yearly"
  /\ users["u1"].subscriptionType = "yearly"
  /\ users["u1"].isPremium = "true"

\* the subscription the sync chooses: the first whose id contains 'yearly',
\* else the first of the list
SyncedProductId(items) ==
  LET yearly == { i \in 1..Len(items) : IncludesYearly(items[i].id) }
  IN IF yearly # {} THEN items[First(yearly)].id ELSE items[1].id

\* C26: POST /sync-apple-subscription with a non-empty list writes the user
\* record only when the record is not already premium or its appleProductId
\* differs from the chosen subscription; when it is premium with that product
\* id nothing is written and the answer is updated = false, so the same sync
\* made again writes nothing: a sync and its repetition write at most once.
C26_SyncWritesOnce ==
  \A b \in SyncBodies :
    (b.userId \in DocUserSet /\ b.subscriptions.given /\ Len(b.subscriptions.items) > 0) =>
      LET out == syncAppleSubscription(users, appleTransactions, b, "none", now)
          again == syncAppleSubscription(out.users, out.txns, b, "none", now)
          id == SyncedProductId(b.subscriptions.items)
          settled == users[b.userId].isPremium = "true" /\ users[b.userId].appleProductId = id
      IN /\ out.resp = 200
         /\ settled => /\ out.io.writes = 0
                       /\ out.io.body = "updated:false"
                       /\ out.users = users
         /\ ~settled => /\ out.io.writes = 1
                        /\ out.io.body = "updated"
                        /\ out.users[b.userId].appleProductId = id
         /\ again.resp = 200
         /\ again.io.body = "updated:false"
         /\ again.users = out.users
         /\ out.io.writes + again.io.writes <= 1

\* u1 is premium through a sync (neither a validation nor a restore has
\* written the document) with the yearly product, and the sync of a list
\* with that product writes nothing
C26_Witness ==
  /\ resp = 200
  /\ users["u1"].isPremium = "true"
  /\ users["u1"].appleProductId = "pro_yearly"
  /\ users["u1"].appleSubscriptionDate = Absent("appleSubscriptionDate")
  /\ users["u1"].appleSubscriptionRestored = Absent("appleSubscriptionRestored")
  /\ \E b \in SyncBodies :
       /\ b.userId = "u1"
       /\ Len(b.subscriptions.items) = 2
       /\ syncAppleSubscription(users, appleTransactions, b, "none", now).io.body = "updated:false"

(***************************************************************************)
(* Cache hits (specification SpecOutage).                                  *)
(***************************************************************************)
\* a geocode answer read from the cache was given without a geocoding call;
\* a places answer read from the cache without a nearby search or an events
\* call; events read from the events entry without an events call
SearchHitCallsNothing ==
  /\ \A q \in GeocodeQueries : \A p \in {"ok", "throw"} :
       LET out == geocode(cache, isRedisConnected, redisUp, q, p, clock)
       IN out.hit => out.status = 200 /\ Calls(out) = 0
  /\ \A q \in OutageSearches : \A up \in Upstreams :
       LET out == places(cache, isRedisConnected, redisUp, q, up, clock)
           ev == EventsPart(cache, isRedisConnected, redisUp, q, up, clock)
       IN /\ out.hit => out.status = 200 /\ Calls(out) = 0
          /\ ev.cached => ev.calls = 0
          /\ (out.status = 200 /\ ~out.hit /\ ev.cached) =>
               out.eventsCalls = 0 /\ out.body.events = ev.events

\* C27: on a cache hit no cached route calls an external provider: a geocode
\* hit makes no geocoding call, a places hit no nearby-search or events
\* call, an events sub-cache hit no events call, and a photo hit no call to
\* the photo provider.
C27_HitCallsNothing ==
  /\ SearchHitCallsNothing
  /\ \A q \in PhotoQueries : \A p \in {"ok", "throw"} :
       LET out == photo(cache, isRedisConnected, redisUp, q, p, clock)
       IN out.hit => out.fetches = 0

(***************************************************************************)
(* Cache keys (specification SpecCache).                                   *)
(***************************************************************************)
\* well-formed searches without refresh, differing in every parameter the
\* model varies
KeyQueries ==
  { q \in PlacesQueries :
      /\ TruthyParam(q.lat)
      /\ q.refresh = NotGiven
      /\ q.keyword \in {NotGiven, Str(<<"pizza">>), Str(<<"pizza", " ", "bar">>)} }

\* the parameters that decide the answer of a search
SearchParams(q) ==
  <<q.lat, q.lng, q.radius, q.keyword, q.includeEvents, q.dateRange, q.selectedDate>>

\* the parameters sent to the events provider: latlong, keyword and the
\* dates made from dateRange and selectedDate
EventParams(q) == <<q.lat, q.lng, q.keyword, q.dateRange, q.selectedDate>>

\* two searches that differ in a parameter have different places keys
PlacesKeysSeparate ==
  \A q1, q2 \in KeyQueries :
    SearchParams(q1) # SearchParams(q2) => PlacesKey(q1, clock) # PlacesKey(q2, clock)

\* two searches with events that differ in a parameter sent to the events
\* provider have different events keys
EventsKeysSeparate ==
  \A q1, q2 \in KeyQueries :
    (IsTrue(q1.includeEvents) /\ IsTrue(q2.includeEvents) /\ EventParams(q1) # EventParams(q2))
      => EventsKey(q1) # EventsKey(q2)

\* the nearby results of a body are those of the words of q
NearbyFor(results, q) ==
  LET keywords == IF TruthyParam(q.keyword) THEN SearchWords(q.keyword) ELSE <<"">>
  IN /\ Len(results) = Len(keywords)
     /\ \A i \in 1..Len(results) :
          /\ results[i].keyword = keywords[i]
          /\ results[i].lat = q.lat.text
          /\ results[i].lng = q.lng.text
          /\ results[i].radius = q.radius

\* the events were fetched for the parameters of q
EventsFor(events, q) ==
  events # NoData =>
    /\ events.lat = q.lat.text
    /\ events.lng = q.lng.text
    /\ events.keyword = q.keyword
    /\ events.dateRange = q.dateRange
    /\ events.selectedDate = q.selectedDate

\* what a search is served from the cache, the places entry or the events
\* entry, was computed for the parameters of the search
ServedForRequest ==
  \A q \in KeyQueries : \A up \in Upstreams :
    LET out == places(cache, isRedisConnected, redisUp, q, up, clock)
        ev == EventsPart(cache, isRedisConnected, redisUp, q, up, clock)
    IN /\ out.hit => NearbyFor(out.body.results, q) /\ EventsFor(out.body.events, q)
       /\ ev.cached => EventsFor(ev.events, q)

\* C28: cache keys separate every pair of logically different queries: two
\* requests that differ in lat, lng, radius, keyword, includeEvents,
\* dateRange or selectedDate never read or write the same cache entry, for
\* the places key and the events key alike, so a value served from the cache
\* was computed for exactly the requested parameters.
C28_KeysSeparate ==
  /\ PlacesKeysSeparate
  /\ EventsKeysSeparate
  /\ ServedForRequest

(***************************************************************************)
(* Refresh (specification SpecCache).                                      *)
(***************************************************************************)
\* well-formed searches with refresh=true
RefreshQueries == { q \in PlacesQueries : TruthyParam(q.lat) /\ IsTrue(q.refresh) }

\* a search with refresh=true is not answered from the places entry, and the
\* key it writes under is read by no search without refresh, as places key
\* or as events key, now or later
RefreshSkipsPlacesEntry ==
  /\ \A q \in RefreshQueries : \A up \in Upstreams :
       ~places(cache, isRedisConnected, redisUp, q, up, clock).hit
  /\ \A q \in RefreshQueries : \A q2 \in KeyQueries : \A later \in {clock, clock + 1} :
       PlacesKey(q2, later) # PlacesKey(q, clock) /\ EventsKey(q2) # PlacesKey(q, clock)

\* C29: GET /api/places with refresh=true never returns data read from the
\* cache: neither the places nor the events of its response come from an
\* existing cache entry, and the entry it writes is under a one-off key that
\* no later request reads.
C29_RefreshReadsNoCache ==
  /\ RefreshSkipsPlacesEntry
  /\ \A q \in RefreshQueries : \A up \in Upstreams :
       LET out == places(cache, isRedisConnected, redisUp, q, up, clock)
       IN out.status = 200 =>
            /\ ~out.body.eventsCached
            /\ out.body.events # NoData => out.body.events.at = clock

(***************************************************************************)
(* Route classes and the general limiter (specification SpecLimiter).      *)
(***************************************************************************)
\* the route classes with a limiter of their own
OwnLimiters == Limiters \ {"general"}

\* the count of a limiter in the window that is open at time t
CountAt(h, l, t) == IF t >= h[l].resetTime THEN 0 ELSE h[l].count

\* C30 as stated: the route classes are limited independently: the client,
\* whatever it has sent to its own class (the quota used up or exceeded),
\* is admitted on every other class, whose quota it has not touched.
C30_Independent ==
  \A c \in OwnLimiters \ {focus} :
    CountAt(hits, c, clock) < MaxOf(c) => Admission(hits, c, clock).status = 200

\* C30 amended: each route class has a counter of its own, which the
\* requests of another class never count against, but every request under
\* /api/ also counts against the general limiter (100 in 15 minutes), shared
\* by all classes: a client that has sent requests of one class only is
\* admitted on another class exactly when the general count of the open
\* window is below 100, and is otherwise rejected by the general limiter
\* before the limiter of that class counts the request.
C30_SharedGeneral ==
  /\ focus # "places" => hits["general"].count = sent
  /\ \A c \in Limiters \ {focus} :
       LET out == Admission(hits, c, clock)
       IN /\ c # "general" => hits[c].count = 0
          /\ out.status = 200 <=> CountAt(hits, "general", clock) < GENERAL_MAX
          /\ out.status = 429 => \A l \in OwnLimiters : out.hits[l] = hits[l]

\* the client has sent 100 photo requests, all admitted, and its next
\* request is rejected whatever its class: geocode with the others
C30_Witness ==
  /\ focus = "photo"
  /\ sent = PHOTO_MAX
  /\ lstatus = 200
  /\ clock < windowEnd
  /\ hits["geocode"].count = 0
  /\ Admission(hits, "geocode", clock).status = 429

(***************************************************************************)
(* The dates a checkout writes (specification SpecReconcile).              *)
(***************************************************************************)
\* a timestamp of the provider that is present and a number
ValidSeconds(x) == x \notin {NULL_T, NAN_T} /\ x > 0

\* C31: handleCheckoutCompleted writes trialEndsAt only when the
\* subscription's trial_end is present and numeric, and currentPeriodEnd
\* only when current_period_end is present and numeric; when the value is
\* absent or invalid the field is no part of the update, not even as null,
\* and the user keeps the value stored before.
C31_DatesOnlyWhenValid ==
  \A e \in CheckoutEvents : \A env \in EnvsFor(e) :
    (e.cref \in DocUserSet /\ env.fault = "none") =>
      LET out == handleCheckoutCompleted(users, e, env)
          before == users[e.cref]
          after == out.users[e.cref]
      IN /\ ~out.thrown
         /\ after.stripeSubscriptionId = e.sub
         /\ after.trialEndsAt =
              IF ValidSeconds(env.trial_end) THEN env.trial_end * 1000 ELSE before.trialEndsAt
         /\ after.currentPeriodEnd =
              IF ValidSeconds(env.current_period_end)
                THEN env.current_period_end * 1000 ELSE before.currentPeriodEnd

\* u1 holds the dates of its trial, and the checkout event of a subscription
\* without trial_end and current_period_end makes it premium with both
\* dates as they are
C31_Witness ==
  /\ resp = 200
  /\ users["u1"].trialEndsAt = T1 * 1000
  /\ users["u1"].currentPeriodEnd = T2 * 1000
  /\ \E e \in CheckoutEvents : \E env \in EnvsFor(e) :
       /\ e.cref = "u1" /\ env.status = "active"
       /\ env.trial_end = NULL_T /\ env.current_period_end = NULL_T
       /\ handleCheckoutCompleted(users, e, env).users["u1"].subscriptionStatus = "premium"
       /\ handleCheckoutCompleted(users, e, env).users["u1"].trialEndsAt = T1 * 1000

(***************************************************************************)
(* The life of one subscription: specification SpecBilling delivers the    *)
(* signed events of subscription s1 of user u1, every call answering.      *)
(***************************************************************************)
BillingDeliveries ==
  { x \in DeliveredInputs :
      /\ x[1] \in SignedDeliveries
      /\ x[1].body.sub = "s1"
      /\ x[2].fault = "none" }

NextBilling ==
  (\E x \in BillingDeliveries : Webhook(x[1], x[2]))
    /\ UNCHANGED <<cacheVars, limiterVars, inflight>>

SpecBilling == Init /\ [][NextBilling]_vars

\* the update events whose handling ends with the document written: the
\* customer is some user's and current_period_end is a number
ProcessedUpdates(us) ==
  { e \in UpdatedEvents :
      FindByCustomer(us, e.customer) # 0 /\ ValidSeconds(e.current_period_end) }

\* the user an update event is about
UserOfUpdate(us, e) == DocUsers[FindByCustomer(us, e.customer)]

\* C32: after each customer.subscription.updated event of a matched user,
\* subscriptionWillCancelAt is present, with the subscription's current
\* period end, if and only if the subscription has cancel_at_period_end
\* set: a premium user becomes cancel-pending and plain premium again as the
\* most recently processed update says.
C32_CancelPendingFollowsFlag ==
  \A e \in ProcessedUpdates(users) :
    LET u == UserOfUpdate(users, e)
        out == handleStripeWebhook(users, SignedDelivery(e), NoEnv, now)
        pending == [e EXCEPT !.status = "active", !.cancel_at_period_end = TRUE]
        resumed == [e EXCEPT !.status = "active", !.cancel_at_period_end = FALSE]
        flagged(us) == us[u].subscriptionWillCancelAt # ABSENT_T
    IN /\ out.resp = 200
       /\ flagged(out.users) <=> e.cancel_at_period_end
       /\ e.cancel_at_period_end =>
            out.users[u].subscriptionWillCancelAt = e.current_period_end * 1000
       /\ flagged(Deliver(users, <<<<pending, NoEnv>>, <<e, NoEnv>>>>, now))
            <=> e.cancel_at_period_end
       /\ flagged(Deliver(users, <<<<resumed, NoEnv>>, <<e, NoEnv>>>>, now))
            <=> e.cancel_at_period_end
       /\ LET back == Deliver(users, <<<<pending, NoEnv>>, <<resumed, NoEnv>>>>, now)
          IN back[u].subscriptionStatus = "premium" /\ ~flagged(back)

\* u1 is premium and cancel-pending, and the update of its subscription
\* without the flag makes it plain premium
C32_Witness ==
  /\ resp = 200
  /\ users["u1"].subscriptionStatus = "premium"
  /\ users["u1"].subscriptionWillCancelAt = T2 * 1000
  /\ \E e \in ProcessedUpdates(users) :
       /\ UserOfUpdate(users, e) = "u1"
       /\ e.status = "active" /\ ~e.cancel_at_period_end
       /\ handleStripeWebhook(users, SignedDelivery(e), NoEnv, now).users["u1"]
            .subscriptionWillCancelAt = ABSENT_T

(***************************************************************************)
(* Requests that name a user without a document.                           *)
(***************************************************************************)
\* app.post('/api/create-portal-session'); fault is the call that throws:
\* "get", "stripe" or "none"
createPortalSession(us, b, fault) ==
  LET h == "create-portal-session"
      Answer(status, ioRec) == [users |-> us, resp |-> status, io |-> ioRec]
  IN IF b.userId = NULL
       THEN Answer(400, IOB(h, 0, 0, 0, "userId is required"))
     ELSE IF fault = "get"
       THEN Answer(500, IOB(h, 0, 0, 0, "Failed to create portal session"))
     ELSE IF b.userId \notin DocUserSet \/ us[b.userId].stripeCustomerId \in {ABSENT, NULL}
       THEN Answer(400, IOB(h, 0, 1, 0, "No Stripe customer found for this user"))
     ELSE IF fault = "stripe"
       THEN Answer(500, IOB(h, 1, 1, 0, "Failed to create portal session"))
     ELSE Answer(200, IOB(h, 1, 1, 0, "url"))

\* the answers of the six routes to the well-formed requests of a user
\* without a document, no call of the outside failing: <<route, status,
\* users afterwards, transaction records afterwards>>
UnknownUserAnswers ==
  { <<"validate-apple-receipt", out.resp, out.users, out.txns>> :
      out \in { validateAppleReceipt(users, appleTransactions, b,
                                     ValidateEnv(FALSE, APPLE_OK, APPLE_OK, "none"), now) :
                  b \in { x \in ValidateBodies :
                            x.userId = GhostUser /\ x.receipt # NULL
                              /\ x.productId \in ProductIds } } }
    \cup
  { <<"restore-apple-subscription", out.resp, out.users, out.txns>> :
      out \in { restoreAppleSubscription(users, appleTransactions, b, "none") :
                  b \in { x \in RestoreBodies : x.userId = GhostUser /\ x.products.given } } }
    \cup
  { <<"sync-apple-subscription", out.resp, out.users, out.txns>> :
      out \in { syncAppleSubscription(users, appleTransactions, b, "none", now) :
                  b \in { x \in SyncBodies : x.userId = GhostUser } } }
    \cup
  { <<"apple-subscription-expired", out.resp, out.users, out.txns>> :
      out \in { appleSubscriptionExpired(users, appleTransactions, b, "none") :
                  b \in { x \in ExpiredBodies :
                            x.userId = GhostUser /\ x.productId \in ProductIds } } }
    \cup
  { <<"cancel-subscription", out.resp, out.users, appleTransactions>> :
      out \in { cancelSubscription(users, [userId |-> GhostUser], env) :
                  env \in { x \in CancelEnvs : x.fault = "none" } } }
    \cup
  { <<"create-portal-session", out.resp, out.users, appleTransactions>> :
      out \in { createPortalSession(users, [userId |-> GhostUser], "none") } }

\* C33: a direct API call (validate-apple-receipt,
\* restore-apple-subscription, sync-apple-subscription,
\* apple-subscription-expired, cancel-subscription, create-portal-session)
\* that names a userId without a user record is answered 400, not 5xx, and
\* creates neither a user record nor a processed-transaction record.
C33_UnknownUserIs400 ==
  \A a \in UnknownUserAnswers :
    /\ a[2] = 400
    /\ a[3] = users
    /\ a[4] = appleTransactions

(***************************************************************************)
(* Trusting the client (specification SpecReconcile).                      *)
(***************************************************************************)
AppleAnswers == {APPLE_OK, APPLE_BAD_RECEIPT, APPLE_SANDBOX_RECEIPT, APPLE_UNREACHABLE}

\* the purchases of a user with a document: receipt, product and, or not, a
\* transaction id
Purchases ==
  { b \in ValidateBodies :
      b.receipt # NULL /\ b.userId \in DocUserSet /\ b.productId \in ProductIds }

\* the document is premium on platform apple with the product of the body
Upgraded(doc, b) ==
  /\ doc.isPremium = "true"
  /\ doc.subscriptionPlatform = "apple"
  /\ doc.appleProductId = b.productId

\* C34: with no shared secret configured, POST /validate-apple-receipt never
\* calls the receipt-validation service and upgrades the named user to
\* premium on platform apple whatever the receipt is worth (what Apple
\* would answer), unless the transaction has a record already; with a
\* shared secret configured no upgrade happens without a verification
\* answer of status 0.
C34_TrustWithoutSecret ==
  \A b \in Purchases : \A prod, sandbox \in AppleAnswers :
    LET trusting == validateAppleReceipt(users, appleTransactions, b,
                                         ValidateEnv(FALSE, prod, sandbox, "none"), now)
        checking == validateAppleReceipt(users, appleTransactions, b,
                                         ValidateEnv(TRUE, prod, sandbox, "none"), now)
        processed == b.transactionId # NULL /\ appleTransactions[b.transactionId].exists
        verified == prod = APPLE_OK \/ (prod = APPLE_SANDBOX_RECEIPT /\ sandbox = APPLE_OK)
    IN /\ trusting.io.retrieves = 0
       /\ trusting.resp = 200
       /\ processed => trusting.io.body = "alreadyProcessed" /\ trusting.users = users
       /\ ~processed => /\ trusting.io.body = "upgraded"
                        /\ Upgraded(trusting.users[b.userId], b)
       /\ (checking.io.writes > 0 \/ checking.users # users \/ checking.io.body = "upgraded")
            => verified
       /\ ~verified => checking.resp = 400 /\ checking.txns = appleTransactions

\* u1 has been upgraded by a validation without shared secret, and a
\* purchase of the yearly product under a receipt Apple would refuse
\* upgrades it again
C34_Witness ==
  /\ resp = 200
  /\ appleTransactions["t1"].exists
  /\ appleTransactions["t1"].userId = "u1"
  /\ Upgraded(users["u1"], [productId |-> "pro_monthly"])
  /\ users["u1"].appleSubscriptionDate = SERVER_TS
  /\ \E b \in Purchases :
       /\ b.userId = "u1" /\ b.transactionId = "t2" /\ b.productId = "pro_yearly"
       /\ Upgraded(validateAppleReceipt(users, appleTransactions, b,
                     ValidateEnv(FALSE, APPLE_BAD_RECEIPT, APPLE_OK, "none"), now)
                     .users["u1"], b)

(***************************************************************************)
(* The webhook route and the limiters.  Express runs the layers of the app *)
(* in the order of their registration, and a layer that answers ends the   *)
(* request: specification SpecFlood follows Stripe as the client and       *)
(* delivers more events than the general limiter admits in a window.       *)
(***************************************************************************)
\* the layers with the general limiter registered first
Layers_limiterFirst == <<"generalLimiter", "webhook", "routes">>

\* app.post('/api/webhook', ...), app.use('/api/', generalLimiter), and the
\* routes registered after them
Layers == <<"webhook", "generalLimiter", "routes">>

Position(layer) == CHOOSE i \in 1..Len(Layers) : Layers[i] = layer

\* the limiters a webhook delivery passes: those registered before its
\* route, which answers every request it gets
WebhookChain ==
  IF Position("generalLimiter") < Position("webhook") THEN <<"general">> ELSE <<>>

\* POST /api/webhook through the layers: the counters afterwards, whether
\* the delivery was admitted, and the outcome
limitedWebhook(h, us, d, env, t, tl) ==
  IF WebhookChain = <<>>
    THEN [hits |-> h, status |-> 200, out |-> handleStripeWebhook(us, d, env, t)]
    ELSE Limited(h, "general", tl,
                 [users |-> us, resp |-> 429, io |-> IO("generalLimiter", 0, 0, 0)],
                 handleStripeWebhook(us, d, env, t))

\* the checkout of u1, an update and the deletion of its subscription
FloodDeliveries ==
  { x \in BillingDeliveries :
      \/ /\ x[1].body.type = "checkout.session.completed"
         /\ x[2] = Env("trialing", T1, T2, "none")
      \/ /\ x[1].body.type = "customer.subscription.updated"
         /\ x[1].body.status = "active"
         /\ x[1].body.current_period_end = T2
         /\ ~x[1].body.cancel_at_period_end
      \/ x[1].body.type = "customer.subscription.deleted" }

InitFlood == InitLedger(NewUserDoc) /\ InitCache /\ InitLimiter({"webhook"})

\* one delivery; sent counts the deliveries of the window
FloodDelivery(d, env) ==
  LET r == limitedWebhook(hits, users, d, env, now, clock)
  IN /\ sent < GENERAL_MAX + MaxExcess
     /\ sent' = sent + 1
     /\ hits' = r.hits
     /\ lstatus' = r.status
     /\ users' = r.out.users
     /\ resp' = r.out.resp
     /\ UNCHANGED <<appleTransactions, now, inflight, cacheVars, focus, windowEnd>>

NextFlood == \E x \in FloodDeliveries : FloodDelivery(x[1], x[2])

SpecFlood == InitFlood /\ [][NextFlood]_vars

\* C35: webhook deliveries to POST /api/webhook are never subject to
\* admission control: the route is registered before the general limiter,
\* so a delivery is never answered 429 and increments no rate-limit counter,
\* however many deliveries arrive in a window.
C35_WebhookUnlimited ==
  /\ resp # 429
  /\ lstatus # 429
  /\ \A l \in Limiters : hits[l].count = 0
  /\ \A x \in FloodDeliveries :
       LET r == limitedWebhook(hits, users, x[1], x[2], now, clock)
       IN /\ r.hits = hits
          /\ r.status = 200
          /\ r.out = handleStripeWebhook(users, x[1], x[2], now)

\* the delivery after the hundredth of the window has been handled: u1 is
\* in the trial of its checkout
C35_Witness ==
  /\ sent = GENERAL_MAX + 1
  /\ resp = 200
  /\ lstatus = 200
  /\ users["u1"].subscriptionStatus = "trial"
  /\ users["u1"].stripeSubscriptionId = "s1"

(***************************************************************************)
(* The fields of the two reconciliation paths (specification               *)
(* SpecReconcile).                                                         *)
(***************************************************************************)
\* the fields the receipt routes write
AppleSide ==
  {"isPremium", "subscriptionType", "subscriptionPlatform", "appleProductId",
   "previousAppleProductId", "appleSubscriptionDate", "appleSubscriptionExpiry",
   "lastAppleReceiptValidation", "appleSubscriptionRestored",
   "appleSubscriptionExpired"}

\* the subscription fields the webhook handlers and the cancellation write
StripeSide ==
  {"subscriptionStatus", "stripeCustomerId", "stripeSubscriptionId", "trialEndsAt",
   "currentPeriodEnd", "subscriptionWillCancelAt"}

Side(us, fs) == [u \in DocUserSet |-> [f \in fs |-> us[u][f]]]

\* the operations of SpecLedger at one instant
NextReconcile ==
  (NextDelivery \/ NextCancel \/ NextReceipt)
    /\ UNCHANGED <<cacheVars, limiterVars, inflight>>

SpecReconcile == InitBoth /\ [][NextReconcile]_vars

\* C36: the two reconciliation paths write disjoint fields.  Whatever the
\* ledger holds, no webhook delivery and no cancel-subscription request
\* changes isPremium, subscriptionType, subscriptionPlatform or an apple
\* field of any user, and no validate, restore, sync or expired request
\* changes subscriptionStatus, stripeCustomerId, stripeSubscriptionId,
\* trialEndsAt, currentPeriodEnd or subscriptionWillCancelAt.
C36_DisjointFields ==
  /\ \A x \in DeliveredInputs :
       Side(handleStripeWebhook(users, x[1], x[2], now).users, AppleSide)
         = Side(users, AppleSide)
  /\ \A x \in CancelBodies \X CancelEnvs :
       Side(cancelSubscription(users, x[1], x[2]).users, AppleSide)
         = Side(users, AppleSide)
  /\ \A x \in ValidateRequests :
       Side(validateAppleReceipt(users, appleTransactions, x[1], x[2], now).users,
            StripeSide) = Side(users, StripeSide)
  /\ \A x \in RestoreRequests :
       Side(restoreAppleSubscription(users, appleTransactions, x[1], x[2]).users,
            StripeSide) = Side(users, StripeSide)
  /\ \A x \in SyncRequests :
       Side(syncAppleSubscription(users, appleTransactions, x[1], x[2], now).users,
            StripeSide) = Side(users, StripeSide)
  /\ \A x \in ExpiredRequests :
       Side(appleSubscriptionExpired(users, appleTransactions, x[1], x[2]).users,
            StripeSide) = Side(users, StripeSide)

\* u1 holds the trial of its checkout and the purchase of its receipt, and
\* the expired request that follows takes the purchase and leaves the trial
C36_Witness ==
  /\ users["u1"].subscriptionStatus = "trial"
  /\ users["u1"].stripeSubscriptionId = "s1"
  /\ users["u1"].isPremium = "true"
  /\ users["u1"].appleProductId = "pro_monthly"
  /\ \E x \in LedgerExpireds :
       LET after == appleSubscriptionExpired(users, appleTransactions, x[1], x[2]).users
       IN /\ after["u1"].isPremium = "false"
          /\ after["u1"].subscriptionStatus = "trial"

(***************************************************************************)
(* The failure flag (specification SpecReconcile).                         *)
(***************************************************************************)
\* the users whose paymentFailed is true
Flagged(us) == { u \in DocUserSet : us[u].paymentFailed = "true" }

\* C37: paymentFailed is monotone.  Once invoice.payment_failed has set it
\* on a user, no operation clears it: whatever webhook delivery (a
\* payment_succeeded, a subscription update or deletion among them),
\* cancellation or receipt request comes next, the flag is true afterwards.
C37_FlagStays ==
  /\ \A x \in DeliveredInputs :
       Flagged(users) \subseteq Flagged(handleStripeWebhook(users, x[1], x[2], now).users)
  /\ \A x \in CancelBodies \X CancelEnvs :
       Flagged(users) \subseteq Flagged(cancelSubscription(users, x[1], x[2]).users)
  /\ \A x \in ValidateRequests :
       Flagged(users) \subseteq
         Flagged(validateAppleReceipt(users, appleTransactions, x[1], x[2], now).users)
  /\ \A x \in RestoreRequests :
       Flagged(users) \subseteq
         Flagged(restoreAppleSubscription(users, appleTransactions, x[1], x[2]).users)
  /\ \A x \in SyncRequests :
       Flagged(users) \subseteq
         Flagged(syncAppleSubscription(users, appleTransactions, x[1], x[2], now).users)
  /\ \A x \in ExpiredRequests :
       Flagged(users) \subseteq
         Flagged(appleSubscriptionExpired(users, appleTransactions, x[1], x[2]).users)

\* u1 is flagged during its trial, and the payment that succeeds next makes
\* it premium and leaves the flag
C37_Witness ==
  /\ users["u1"].paymentFailed = "true"
  /\ users["u1"].subscriptionStatus = "trial"
  /\ \E x \in LedgerDeliveries :
       LET after == handleStripeWebhook(users, x[1], x[2], now).users
       IN /\ x[1].body.type = "invoice.payment_succeeded"
          /\ after["u1"].subscriptionStatus = "premium"
          /\ after["u1"].paymentFailed = "true"

(***************************************************************************)
(* A validation that fails (specification SpecApple).                      *)
(***************************************************************************)
\* C38: a POST /validate-apple-receipt that ends in an error response (4xx
\* or 5xx) leaves no Processed-Transaction Record behind for its
\* transactionId: the records after the request are the records before it,
\* so a retry is never answered alreadyProcessed without the upgrade.
C38_FailureLeavesNoRecord ==
  \A x \in ValidateRequests :
    LET out == validateAppleReceipt(users, appleTransactions, x[1], x[2], now)
    IN out.resp >= 400 => out.txns = appleTransactions

(***************************************************************************)
(* Events that arrive after the deletion (specification SpecBilling).      *)
(***************************************************************************)
\* the users whose subscription s has been deleted: free, the subscription
\* id removed, the customer of s kept
DeletedFor(us, s) ==
  { u \in DocUserSet :
      /\ us[u].subscriptionStatus = "free"
      /\ us[u].stripeSubscriptionId = ABSENT
      /\ us[u].stripeCustomerId = CustomerOf(s) }

\* the checkout and the paid invoice of subscription s
LateEventsOf(s) ==
  { e \in CheckoutEvents \cup InvoiceEvents :
      e.sub = s /\ e.type # "invoice.payment_failed" }

\* what stripe.subscriptions.retrieve returns for a canceled subscription
CanceledEnv == Env("canceled", NULL_T, T2, "none")

\* C39: once customer.subscription.deleted has been processed for a user's
\* subscription, a late or replayed checkout.session.completed or
\* invoice.payment_succeeded of that same, now canceled, subscription does
\* not put the user back into a paid state: subscriptionStatus stays 'free'
\* and stripeSubscriptionId stays cleared.
C39_DeletedStaysFree ==
  \A u \in DeletedFor(users, "s1") : \A e \in LateEventsOf("s1") :
    LET after == handleStripeWebhook(users, SignedDelivery(e), CanceledEnv, now).users
    IN /\ after[u].subscriptionStatus = "free"
       /\ after[u].stripeSubscriptionId = ABSENT

====
